---- MODULE Spec2Model ----
(***************************************************************************)
(* Piview kiosk supervisor (src/piview.py).                                *)
(*                                                                         *)
(* The supervisor object is shared, without any lock, by the main thread   *)
(* (Piview.run), the health-check thread (Piview.health_check_thread), the *)
(* screen-keepalive thread and the signal handler, which Python runs on    *)
(* the main thread.  Every read of self.browser_process is a fresh read    *)
(* of the attribute, so each such read is a step of its own.               *)
(*                                                                         *)
(* Time is abstracted: a sleep is a step; "15 s have passed since the      *)
(* launch of child c" is the flag carried by the child's status and set    *)
(* by the environment step GraceElapses(c).                                *)
(***************************************************************************)
EXTENDS Integers, Sequences, FiniteSets, TLC

\* ---- bounds of the model
MaxChildren == 2
MaxBrowserRestarts == 1
MaxConnFail == 1
MaxConsecFail == 1
ObsWindow == 240
ScenarioCap == 3
MaxNetFail == 4
MaxEpisodeFailovers == 2
MaxFlags == 2
MaxUnresponsive == 5
MaxUrls == 2
MaxConnectionRetries == 3
MaxVerifyCalls == 2
MaxWait == 4

\* ---- program constants
StartupAttempts == 10
SweepRounds == 3
RefreshInterval == 60
UrlCheckInterval == 60
RefreshProbeInterval == 30
GraceWindow == 15
RestartLimitWait == 60
FailoverThreshold == 3
XsetTimeout == 2
RecheckProbes == 10

None == 0
Children == 1..MaxChildren
Workers == {"main", "health"}

VARIABLES
    running,                \* self.running
    exited,                 \* "no", or the exit status of the process: "0", "1"
    browser_process,        \* self.browser_process: None or a child
    browser_launch_time,    \* self.browser_launch_time: None (0) or the child at
                            \* whose launch the time was taken
    browser_restart_count,  \* self.browser_restart_count
    connection_failures,    \* self.connection_failures
    child,                  \* the browser processes spawned by Popen
    pc, stack,              \* position and return labels of main and health
    ret,                    \* value returned by open_url to its caller
    sweepLeft,              \* rounds left of the pkill loop of close_browser
    tmp,                    \* value read by a `+= 1` before it is written back
    attempt,                \* `attempt` of the start-up loop of run
    consecutive_failures,   \* `consecutive_failures`, local to run
    kpc,                    \* position of the screen-keepalive thread
    config,                 \* self.config: the snapshot loaded at start-up
    consecutive_network_failures,  \* self.consecutive_network_failures
    network_failover_triggered,    \* self.network_failover_triggered
    switched,               \* force_network_failover has run its interface switch
    episode_failovers,      \* failover attempts since the last successful probe
                            \* of the health-check thread
    url_check,              \* a call of check_url_connectivity: inputs, result
    cmd,                    \* the command line built by open_url
    boot,                   \* the start-up of the process: the files it
                            \* finds, and how it ends
    reboots,                \* reboot commands the supervisor has issued
    verify,                 \* the connectivity verification of open_url: its
                            \* locals, and what it has done
    x_wait,                 \* a call of wait_for_x_server: its locals, and
                            \* what it has done
    startup,                \* the launch attempts and waits of run before
                            \* its main loop
    refresh,                \* the last call of refresh_page: what it found
                            \* and what it did
    config_file,            \* ~/.piview/config.json as the URL manager
                            \* leaves it
    launched_url,           \* the URL on the command line of the last Popen
    unresponsive_checks,    \* consecutive check intervals at which the live
                            \* child did not respond
    racing,                 \* whether the last child was spawned while the
                            \* other thread was inside close_browser
    grace,                  \* what each thread's close_browser in progress
                            \* has done through the handle
    obs, clock, carried     \* observer of restarts against nominal time

\* the state of the connectivity gate, which the browser operations leave alone
\* calls and collaborators that single claims look at
callvars == <<verify, x_wait, startup, refresh>>

auxvars == <<cmd, boot, reboots, config_file, callvars>>

\* what a spawn is seen by
spawnvars == <<launched_url, unresponsive_checks, racing, grace>>

gatevars == <<consecutive_network_failures, network_failover_triggered,
              switched, episode_failovers, url_check, auxvars>>

netvars == <<gatevars, spawnvars>>

vars == <<running, exited, browser_process, browser_launch_time,
          browser_restart_count, connection_failures, child, pc, stack, ret,
          sweepLeft, tmp, attempt, consecutive_failures, kpc, config, netvars,
          obs, clock, carried>>

Min(a, b) == IF a < b THEN a ELSE b

\* ---- the children (subprocess.Popen objects and the processes behind them)
LiveStatus == {"live_young", "live_old"}
DeadStatus == {"dead_early_young", "dead_early_old", "dead_late"}

Live(c) == child[c] \in LiveStatus
LiveChildren == {c \in Children : Live(c)}

\* 15 s or more have passed since child c was launched
Aged(c) == child[c] \in {"live_old", "dead_early_old", "dead_late"}

\* the status of a live child once it has exited
Exited(s) == IF s = "live_young" THEN "dead_early_young" ELSE "dead_late"

\* A Popen object nobody refers to any more is garbage: its slot is free again.
Collect(ch, h, lt) ==
    [c \in Children |->
        IF ch[c] \in DeadStatus /\ c # h /\ c # lt THEN "free" ELSE ch[c]]

KillAll(ch) ==
    [c \in Children |-> IF ch[c] \in LiveStatus THEN Exited(ch[c]) ELSE ch[c]]

KillOne(ch, h) ==
    [c \in Children |->
        IF c = h /\ ch[c] \in LiveStatus THEN Exited(ch[c]) ELSE ch[c]]

FreeSlots == {c \in Children : child[c] = "free"}
LowestFree == CHOOSE c \in FreeSlots : \A d \in FreeSlots : c <= d

\* elapsed = time.time() - self.browser_launch_time if self.browser_launch_time > 0 else 999
\* elapsed < 15
InStartupPhase == browser_launch_time # None /\ ~Aged(browser_launch_time)

\* ---- control
At(t, l) == exited = "no" /\ pc[t] = l
Goto(t, l) == pc' = [pc EXCEPT ![t] = l] /\ UNCHANGED stack
Call(t, proc, back) ==
    /\ pc' = [pc EXCEPT ![t] = proc]
    /\ stack' = [stack EXCEPT ![t] = back \o @]
Return(t) ==
    /\ pc' = [pc EXCEPT ![t] = Head(stack[t])]
    /\ stack' = [stack EXCEPT ![t] = Tail(@)]

\* nominal duration d (seconds) of a step, seen by the observer only
Elapse(d) ==
    clock' = IF obs THEN Min(clock + d, ObsWindow + 1) ELSE clock

\* the process ends: its threads are gone, its children are not
Exit(status) ==
    /\ exited' = status
    /\ pc' = [t \in Workers |-> "gone"]
    /\ stack' = [t \in Workers |-> <<>>]
    /\ ret' = [t \in Workers |-> FALSE]
    /\ sweepLeft' = [t \in Workers |-> 0]
    /\ tmp' = [t \in Workers |-> 0]
    /\ attempt' = 0
    /\ consecutive_failures' = 0
    /\ kpc' = "gone"

\* self.config.get("network_failover_enabled", False), and the like
\* a flag of the command line, as the pieces that str.startswith and
\* str.split("=") tell apart
Flag(name) == <<name>>
DefaultKioskFlags ==
    <<Flag("--kiosk"), Flag("--noerrdialogs"), Flag("--disable-infobars"),
      Flag("--disable-session-crashed-bubble"),
      Flag("--disable-restore-session-state"), Flag("--disable-sync"),
      Flag("--disable-dev-shm-usage"), Flag("--no-sandbox"),
      Flag("--disable-gpu"),
      <<"--user-data-dir", "=/tmp/chromium-ssl-bypass">> >>

\* DEFAULT_CONFIG, and self.config.get("network_failover_enabled", False),
\* self.config.get("cert_installed", False)
Config(max_restarts, failover_enabled) ==
    [url |-> <<"http://example.com">>,
     browser |-> <<"chromium-browser">>,
     max_browser_restarts |-> max_restarts,
     ignore_ssl_errors |-> TRUE,
     cert_installed |-> FALSE,
     kiosk_flags |-> DefaultKioskFlags,
     network_failover_enabled |-> failover_enabled]

\* no call of check_url_connectivity under observation
NoProbe == [phase |-> "none"]

\* no command line under observation
NoCmd == [phase |-> "none"]

InitCore(observed, cfg) ==
    /\ running = TRUE
    /\ exited = "no"
    /\ browser_process = None
    /\ browser_launch_time = None
    /\ browser_restart_count = 0
    /\ connection_failures = 0
    /\ child = [c \in Children |-> "free"]
    /\ pc = [t \in Workers |-> IF t = "main" THEN "m_start" ELSE "h_top"]
    /\ stack = [t \in Workers |-> <<>>]
    /\ ret = [t \in Workers |-> FALSE]
    /\ sweepLeft = [t \in Workers |-> 0]
    /\ tmp = [t \in Workers |-> 0]
    /\ attempt = 0
    /\ consecutive_failures = 0
    /\ kpc = "k_loop"
    /\ config = cfg
    /\ consecutive_network_failures = 0
    /\ network_failover_triggered = FALSE
    /\ switched = FALSE
    /\ episode_failovers = 0
    /\ obs = observed
    /\ clock = 0
    /\ carried = 0

\* the start-up is not under observation
NoBoot == [phase |-> "none"]

\* the configuration file is not under observation
NoFile == [phase |-> "none"]

\* spawns are not watched for a close_browser in progress
NoRace == [phase |-> "none"]

\* the calls of refresh_page are not recorded
NoRefresh == [phase |-> "none"]

\* the start-up of run is not recorded
NoStartup == [phase |-> "none"]

\* no call of wait_for_x_server under observation
NoXWait == [phase |-> "none"]

\* no connectivity verification under observation
NoVerify == [phase |-> "none"]

\* the calls that close_browser makes on the handle are not recorded
NoGrace == [phase |-> "none"]

\* the calls and collaborators that are not under observation, but for those
\* named in `watched`
Idle(watched) ==
    /\ IF "url_check" \in watched THEN TRUE ELSE url_check = NoProbe
    /\ IF "cmd" \in watched THEN TRUE ELSE cmd = NoCmd
    /\ IF "boot" \in watched THEN TRUE ELSE boot = NoBoot
    /\ IF "reboots" \in watched THEN TRUE ELSE reboots = 0
    /\ IF "config_file" \in watched THEN TRUE ELSE config_file = NoFile
    /\ IF "verify" \in watched THEN TRUE ELSE verify = NoVerify
    /\ IF "x_wait" \in watched THEN TRUE ELSE x_wait = NoXWait
    /\ IF "startup" \in watched THEN TRUE ELSE startup = NoStartup
    /\ IF "refresh" \in watched THEN TRUE ELSE refresh = NoRefresh
    /\ launched_url = <<>>
    /\ unresponsive_checks = 0
    /\ IF "racing" \in watched THEN TRUE ELSE racing = NoRace
    /\ IF "grace" \in watched THEN TRUE ELSE grace = NoGrace

InitFrom(observed, cfg, p) ==
    /\ InitCore(observed, cfg)
    /\ url_check = p
    /\ Idle({"url_check"})

InitWith(observed, max_restarts) ==
    InitFrom(observed, Config(max_restarts, FALSE), NoProbe)

Init == InitWith(FALSE, MaxBrowserRestarts)

\* ---- the flag list and command line of open_url (lines 812-853)

\* f.startswith(p)
StartsWith(f, p) == Len(p) <= Len(f) /\ SubSeq(f, 1, Len(p)) = p

\* flag.split("=")[0] if "=" in flag else flag
ValuePieces == {"=HASH", "=http://kiosk.local", "=/tmp/chromium-ssl-bypass"}
FlagName(flag) ==
    LET at == {i \in 1..Len(flag) : flag[i] \in ValuePieces}
    IN IF at = {} THEN flag
       ELSE SubSeq(flag, 1, (CHOOSE i \in at : \A j \in at : i <= j) - 1)

IgnoreCertificateErrors == Flag("--ignore-certificate-errors")
IgnoreSslErrors == Flag("--ignore-ssl-errors")
SpkiList == <<"--ignore-certificate-errors", "-spki-list">>
AllowInsecureContent == Flag("--allow-running-insecure-content")
TreatOriginAsSecure == Flag("--unsafely-treat-insecure-origin-as-secure")
DisableWebSecurity == Flag("--disable-web-security")

\* the prefixes removed when certificates are installed (lines 820-826)
BypassPrefixes ==
    {IgnoreCertificateErrors, IgnoreSslErrors, AllowInsecureContent,
     TreatOriginAsSecure, DisableWebSecurity}

\* ssl_flags (lines 830-837)
SslFlags ==
    <<IgnoreCertificateErrors, IgnoreSslErrors, SpkiList,
      AllowInsecureContent, TreatOriginAsSecure, DisableWebSecurity>>

\* for flag in ssl_flags: append it unless a flag of the list starts with
\* its name
RECURSIVE AddSslFlags(_, _)
AddSslFlags(kiosk_flags, ssl_flags) ==
    IF ssl_flags = <<>> THEN kiosk_flags
    ELSE LET flag == Head(ssl_flags)
             flag_name == FlagName(flag)
         IN AddSslFlags(
                IF \E i \in 1..Len(kiosk_flags) :
                       StartsWith(kiosk_flags[i], flag_name)
                THEN kiosk_flags
                ELSE Append(kiosk_flags, flag),
                Tail(ssl_flags))

IsBypass(f) == \E bypass \in BypassPrefixes : StartsWith(f, bypass)

\* kiosk_flags as open_url builds it from a copy of config["kiosk_flags"]
KioskFlags(cfg) ==
    IF cfg.cert_installed
    THEN SelectSeq(cfg.kiosk_flags, LAMBDA f : ~IsBypass(f))
    ELSE IF cfg.ignore_ssl_errors
         THEN AddSslFlags(cfg.kiosk_flags, SslFlags)
         ELSE cfg.kiosk_flags

\* cmd = [browser_cmd] + kiosk_flags + [url]
Cmd(browser_cmd, cfg, url) == <<browser_cmd>> \o KioskFlags(cfg) \o <<url>>

\* ---- close_browser (lines 358-386)

\* the record of thread t's close_browser, with `field` set to child h
Through(field, t, h) ==
    IF grace.phase = "none" THEN grace ELSE [grace EXCEPT ![field][t] = h]

\* if self.browser_process:
CbTest(t) ==
    /\ At(t, "cb_test")
    /\ IF browser_process # None
       THEN /\ Goto(t, "cb_term")
            /\ UNCHANGED sweepLeft
       ELSE /\ Goto(t, "cb_sweep")
            /\ sweepLeft' = [sweepLeft EXCEPT ![t] = SweepRounds]
    /\ racing' = IF racing.phase = "raced" /\ racing.closer = t
                  THEN [phase |-> "idle"]
                  ELSE racing
    /\ grace' = IF grace.phase = "none" THEN grace
                ELSE [grace EXCEPT !.sent[t] = None, !.timed_out[t] = None,
                                   !.forced[t] = None]
    /\ Elapse(0)
    /\ UNCHANGED <<running, exited, browser_process, browser_launch_time,
                   browser_restart_count, connection_failures, child, ret,
                   tmp, attempt, consecutive_failures, kpc, config, gatevars,
                   launched_url, unresponsive_checks, obs, carried>>

\* self.browser_process.terminate(): on None an AttributeError, caught by
\* `except Exception`; a live child exits in time or does not
CbTerminate(t) ==
    /\ At(t, "cb_term")
    /\ IF browser_process = None
       THEN /\ Goto(t, "cb_clear")
            /\ UNCHANGED child
       ELSE /\ Goto(t, "cb_wait")
            /\ \E obeys \in BOOLEAN :
                 child' = IF obeys THEN KillOne(child, browser_process)
                          ELSE child
    /\ grace' = Through("sent", t, browser_process)
    /\ Elapse(0)
    /\ UNCHANGED <<running, exited, browser_process, browser_launch_time,
                   browser_restart_count, connection_failures, ret, sweepLeft,
                   tmp, attempt, consecutive_failures, kpc, config, gatevars,
                   launched_url, unresponsive_checks, racing, obs, carried>>

\* a close_browser that does not look at how the wait ended
CbWaitImpatient(t) ==
    /\ At(t, "cb_wait")
    /\ Goto(t, "cb_kill")
    /\ grace' = IF browser_process # None /\ Live(browser_process)
                THEN Through("timed_out", t, browser_process)
                ELSE grace
    /\ Elapse(3)
    /\ UNCHANGED <<running, exited, browser_process, browser_launch_time,
                   browser_restart_count, connection_failures, child, ret,
                   sweepLeft, tmp, attempt, consecutive_failures, kpc, config,
                   gatevars, launched_url, unresponsive_checks, racing, obs,
                   carried>>

\* self.browser_process.wait(timeout=3): TimeoutExpired while the child lives
CbWait(t) ==
    /\ At(t, "cb_wait")
    /\ IF browser_process # None /\ Live(browser_process)
       THEN /\ Goto(t, "cb_kill")
            /\ grace' = Through("timed_out", t, browser_process)
       ELSE /\ Goto(t, "cb_clear")
            /\ UNCHANGED grace
    /\ Elapse(3)
    /\ UNCHANGED <<running, exited, browser_process, browser_launch_time,
                   browser_restart_count, connection_failures, child, ret,
                   sweepLeft, tmp, attempt, consecutive_failures, kpc, config,
                   gatevars, launched_url, unresponsive_checks, racing, obs,
                   carried>>

\* self.browser_process.kill(); self.browser_process.wait(timeout=2)
\* under `except Exception: pass`
CbKill(t) ==
    /\ At(t, "cb_kill")
    /\ child' = IF browser_process = None THEN child
                ELSE KillOne(child, browser_process)
    /\ grace' = IF browser_process = None THEN grace
                ELSE Through("forced", t, browser_process)
    /\ Goto(t, "cb_clear")
    /\ Elapse(2)
    /\ UNCHANGED <<running, exited, browser_process, browser_launch_time,
                   browser_restart_count, connection_failures, ret, sweepLeft,
                   tmp, attempt, consecutive_failures, kpc, config, gatevars,
                   launched_url, unresponsive_checks, racing, obs, carried>>

\* finally: self.browser_process = None
CbClear(t) ==
    /\ At(t, "cb_clear")
    /\ browser_process' = None
    /\ child' = Collect(child, None, browser_launch_time)
    /\ sweepLeft' = [sweepLeft EXCEPT ![t] = SweepRounds]
    /\ Goto(t, "cb_sweep")
    /\ Elapse(0)
    /\ UNCHANGED <<running, exited, browser_launch_time,
                   browser_restart_count, connection_failures, ret, tmp,
                   attempt, consecutive_failures, kpc, config, netvars, obs, carried>>

\* a close_browser that counts each of its calls as a restart when it returns:
\* close_browser as it would be if it were not idempotent
CbSweepCounting(t) ==
    /\ At(t, "cb_sweep")
    /\ \E hit \in BOOLEAN :
         child' = IF hit
                  THEN Collect(KillAll(child), browser_process,
                               browser_launch_time)
                  ELSE child
    /\ sweepLeft' = [sweepLeft EXCEPT ![t] = @ - 1]
    /\ IF sweepLeft[t] = 1 THEN Return(t) ELSE UNCHANGED <<pc, stack>>
    /\ Elapse(1)
    /\ browser_restart_count' =
         IF sweepLeft[t] = 1
         THEN Min(browser_restart_count + 1, config.max_browser_restarts + 1)
         ELSE browser_restart_count
    /\ UNCHANGED <<running, exited, browser_process, browser_launch_time,
                   connection_failures, ret, tmp, attempt,
                   consecutive_failures, kpc, config, netvars, obs, carried>>

\* for _ in range(3): pkill -9 -f <browser>; sleep(0.5): the sweep kills the
\* same-named processes, or fails or matches nothing (swallowed)
CbSweep(t) ==
    /\ At(t, "cb_sweep")
    /\ \E hit \in BOOLEAN :
         child' = IF hit
                  THEN Collect(KillAll(child), browser_process,
                               browser_launch_time)
                  ELSE child
    /\ sweepLeft' = [sweepLeft EXCEPT ![t] = @ - 1]
    /\ IF sweepLeft[t] = 1 THEN Return(t) ELSE UNCHANGED <<pc, stack>>
    /\ Elapse(1)
    /\ UNCHANGED <<running, exited, browser_process, browser_launch_time,
                   browser_restart_count, connection_failures, ret, tmp,
                   attempt, consecutive_failures, kpc, config, netvars, obs, carried>>

CloseBrowser(t) ==
    \/ CbTest(t) \/ CbTerminate(t) \/ CbWait(t) \/ CbKill(t) \/ CbClear(t)
    \/ CbSweep(t)

\* ---- open_url (lines 696-916); it starts with self.close_browser(), so a
\* call of open_url is a call of close_browser that returns to "ou_pre"
OpenUrlFrom(back) == <<"ou_pre">> \o back

\* an open_url that gives up when the connectivity probes fail
OuPreGated(t) ==
    /\ At(t, "ou_pre")
    /\ \E outcome \in {"surface_not_ready", "no_executable", "reachable",
                       "dns_failed", "unreachable"} :
         CASE outcome \in {"surface_not_ready", "no_executable"} ->
                /\ ret' = [ret EXCEPT ![t] = FALSE]
                /\ Return(t)
                /\ Elapse(30)
                /\ UNCHANGED connection_failures
           [] outcome = "reachable" ->
                /\ connection_failures' = 0
                /\ Goto(t, "ou_spawn")
                /\ Elapse(1)
                /\ UNCHANGED ret
           [] OTHER ->
                /\ connection_failures < MaxConnFail
                /\ connection_failures' = connection_failures + 1
                /\ ret' = [ret EXCEPT ![t] = FALSE]
                /\ Return(t)
                /\ Elapse(40)
    /\ UNCHANGED <<running, exited, browser_process, browser_launch_time,
                   browser_restart_count, child, sweepLeft, tmp, attempt,
                   consecutive_failures, kpc, config, netvars, obs, carried>>

\* wait_for_x_server, the xset check and find_browser (return False, nothing
\* spawned), then the connectivity probes, which only set connection_failures
OuPre(t) ==
    /\ At(t, "ou_pre")
    /\ \E outcome \in {"surface_not_ready", "no_executable", "reachable",
                       "dns_failed", "unreachable"} :
         CASE outcome \in {"surface_not_ready", "no_executable"} ->
                /\ ret' = [ret EXCEPT ![t] = FALSE]
                /\ Return(t)
                /\ Elapse(30)
                /\ UNCHANGED connection_failures
           [] outcome = "reachable" ->
                /\ connection_failures' = 0
                /\ Goto(t, "ou_spawn")
                /\ Elapse(1)
                /\ UNCHANGED ret
           [] OTHER ->
                /\ connection_failures < MaxConnFail
                /\ connection_failures' = connection_failures + 1
                /\ Goto(t, "ou_spawn")
                /\ Elapse(40)
                /\ UNCHANGED ret
    /\ UNCHANGED <<running, exited, browser_process, browser_launch_time,
                   browser_restart_count, child, sweepLeft, tmp, attempt,
                   consecutive_failures, kpc, config, netvars, obs, carried>>

\* close_browser has run its first statement and has not returned
CbBegun == {"cb_term", "cb_wait", "cb_kill", "cb_clear", "cb_sweep"}

\* a spawn by thread t, noted with the thread that is inside close_browser at
\* that moment (when spawns are watched for it)
Raced(t) ==
    IF racing.phase = "none" THEN racing
    ELSE IF \E u \in Workers \ {t} : pc[u] \in CbBegun
         THEN [phase |-> "raced",
               closer |-> CHOOSE u \in Workers \ {t} : pc[u] \in CbBegun]
         ELSE [phase |-> "idle"]

\* an open_url that builds its flag list in config["kiosk_flags"] itself, not
\* in a copy
OuSpawnInPlace(t) ==
    /\ At(t, "ou_spawn")
    /\ \/ /\ FreeSlots # {}
          /\ LET c == LowestFree IN
               /\ browser_process' = c
               /\ child' = Collect([child EXCEPT ![c] = "live_young"], c,
                                   browser_launch_time)
               /\ racing' = Raced(t)
          /\ launched_url' = IF config_file.phase = "none"
                             THEN launched_url
                             ELSE config.url
          /\ unresponsive_checks' = 0
          /\ UNCHANGED grace
          /\ Goto(t, "ou_chk1")
          /\ UNCHANGED ret
       \/ /\ ret' = [ret EXCEPT ![t] = FALSE]
          /\ Return(t)
          /\ UNCHANGED <<browser_process, child, spawnvars>>
    /\ config' = [config EXCEPT !.kiosk_flags = KioskFlags(config)]
    /\ Elapse(0)
    /\ UNCHANGED <<running, exited, browser_launch_time,
                   browser_restart_count, connection_failures, sweepLeft, tmp,
                   attempt, consecutive_failures, kpc, gatevars, obs, carried>>

\* self.browser_process = subprocess.Popen(cmd, ...): a new child, or an
\* exception (FileNotFoundError, OSError), caught: return False
OuSpawn(t) ==
    /\ At(t, "ou_spawn")
    /\ \/ /\ FreeSlots # {}
          /\ LET c == LowestFree IN
               /\ browser_process' = c
               /\ child' = Collect([child EXCEPT ![c] = "live_young"], c,
                                   browser_launch_time)
               /\ racing' = Raced(t)
          /\ launched_url' = IF config_file.phase = "none"
                             THEN launched_url
                             ELSE config.url
          /\ unresponsive_checks' = 0
          /\ UNCHANGED grace
          /\ Goto(t, "ou_chk1")
          /\ UNCHANGED ret
       \/ /\ ret' = [ret EXCEPT ![t] = FALSE]
          /\ Return(t)
          /\ UNCHANGED <<browser_process, child, spawnvars>>
    /\ Elapse(0)
    /\ UNCHANGED <<running, exited, browser_launch_time,
                   browser_restart_count, connection_failures, sweepLeft, tmp,
                   attempt, consecutive_failures, kpc, config, gatevars, obs,
                   carried>>

\* time.sleep(1); if self.browser_process.poll() is not None: return False
\* self.browser_launch_time = time.time()
\* (on None an AttributeError, caught by `except Exception`: return False)
OuCheck1(t) ==
    /\ At(t, "ou_chk1")
    /\ IF browser_process # None /\ Live(browser_process)
       THEN /\ browser_launch_time' = browser_process
            /\ child' = Collect(child, browser_process, browser_process)
            /\ Goto(t, "ou_chk2")
            /\ UNCHANGED ret
       ELSE /\ ret' = [ret EXCEPT ![t] = FALSE]
            /\ Return(t)
            /\ UNCHANGED <<browser_launch_time, child>>
    /\ Elapse(1)
    /\ UNCHANGED <<running, exited, browser_process, browser_restart_count,
                   connection_failures, sweepLeft, tmp, attempt,
                   consecutive_failures, kpc, config, netvars, obs, carried>>

\* an open_url that reports success without its second liveness check
OuCheck2Blind(t) ==
    /\ At(t, "ou_chk2")
    /\ ret' = [ret EXCEPT ![t] = TRUE]
    /\ Return(t)
    /\ Elapse(8)
    /\ UNCHANGED <<running, exited, browser_process, browser_launch_time,
                   browser_restart_count, connection_failures, child,
                   sweepLeft, tmp, attempt, consecutive_failures, kpc, config, netvars, obs,
                   carried>>

\* time.sleep(8); if self.browser_process.poll() is not None: return False
\* return True
OuCheck2(t) ==
    /\ At(t, "ou_chk2")
    /\ ret' = [ret EXCEPT ![t] =
                 browser_process # None /\ Live(browser_process)]
    /\ Return(t)
    /\ Elapse(8)
    /\ UNCHANGED <<running, exited, browser_process, browser_launch_time,
                   browser_restart_count, connection_failures, child,
                   sweepLeft, tmp, attempt, consecutive_failures, kpc, config, netvars, obs,
                   carried>>

OpenUrl(t) == OuPre(t) \/ OuSpawn(t) \/ OuCheck1(t) \/ OuCheck2(t)

\* ---- restart_browser (lines 421-442)

\* max_restarts = self.config.get("max_browser_restarts", 10)
\* if self.browser_restart_count >= max_restarts: ... else self.close_browser()
RbEntry(t) ==
    /\ At(t, "rb_entry")
    /\ IF browser_restart_count >= config.max_browser_restarts
       THEN Goto(t, "rb_limit")
       ELSE Call(t, "cb_test", <<"rb_open">>)
    /\ Elapse(0)
    /\ UNCHANGED <<running, exited, browser_process, browser_launch_time,
                   browser_restart_count, connection_failures, child, ret,
                   sweepLeft, tmp, attempt, consecutive_failures, kpc, config, netvars, obs,
                   carried>>

\* a restart_browser that drops the restart when the limit is reached
RbLimitDrop(t) ==
    /\ At(t, "rb_limit")
    /\ browser_restart_count' = 0
    /\ Return(t)
    /\ Elapse(RestartLimitWait)
    /\ UNCHANGED <<running, exited, browser_process, browser_launch_time,
                   connection_failures, child, ret, sweepLeft, tmp, attempt,
                   consecutive_failures, kpc, config, netvars, obs, carried>>

\* time.sleep(60); self.browser_restart_count = 0; self.close_browser()
RbLimitWait(t) ==
    /\ At(t, "rb_limit")
    /\ browser_restart_count' = 0
    /\ Call(t, "cb_test", <<"rb_open">>)
    /\ Elapse(RestartLimitWait)
    /\ UNCHANGED <<running, exited, browser_process, browser_launch_time,
                   connection_failures, child, ret, sweepLeft, tmp, attempt,
                   consecutive_failures, kpc, config, netvars, obs, carried>>

\* time.sleep(2); self.prevent_screen_blanking(); self.open_url(...)
RbOpen(t) ==
    /\ At(t, "rb_open")
    /\ Call(t, "cb_test", OpenUrlFrom(<<"rb_result">>))
    /\ Elapse(2)
    /\ carried' = IF obs /\ clock <= ObsWindow
                  THEN Min(carried + 1, config.max_browser_restarts + 1)
                  ELSE carried
    /\ UNCHANGED <<running, exited, browser_process, browser_launch_time,
                   browser_restart_count, connection_failures, child, ret,
                   sweepLeft, tmp, attempt, consecutive_failures, kpc, config, netvars, obs>>

\* if self.open_url(...): self.browser_restart_count = 0
\* else: the read of `self.browser_restart_count += 1`
RbResult(t) ==
    /\ At(t, "rb_result")
    /\ IF ret[t]
       THEN /\ browser_restart_count' = 0
            /\ Return(t)
            /\ UNCHANGED tmp
       ELSE /\ tmp' = [tmp EXCEPT ![t] = browser_restart_count]
            /\ Goto(t, "rb_incr")
            /\ UNCHANGED browser_restart_count
    /\ ret' = [ret EXCEPT ![t] = FALSE]
    /\ Elapse(0)
    /\ UNCHANGED <<running, exited, browser_process, browser_launch_time,
                   connection_failures, child, sweepLeft, attempt,
                   consecutive_failures, kpc, config, netvars, obs, carried>>

\* the write of `self.browser_restart_count += 1`; time.sleep(5).  Unlocked,
\* the counter can pass max_browser_restarts; every value above it takes the
\* same branch of restart_browser, so the model keeps the first such value.
RbIncrement(t) ==
    /\ At(t, "rb_incr")
    /\ browser_restart_count' =
         Min(tmp[t] + 1, config.max_browser_restarts + 1)
    /\ tmp' = [tmp EXCEPT ![t] = 0]
    /\ Return(t)
    /\ Elapse(5)
    /\ UNCHANGED <<running, exited, browser_process, browser_launch_time,
                   connection_failures, child, ret, sweepLeft, attempt,
                   consecutive_failures, kpc, config, netvars, obs, carried>>

RestartBrowser(t) ==
    RbEntry(t) \/ RbLimitWait(t) \/ RbOpen(t) \/ RbResult(t) \/ RbIncrement(t)

\* ---- health_check_thread (lines 260-310)

\* while self.running: time.sleep(health_check_interval)
HealthTop ==
    /\ At("health", "h_top")
    /\ IF running THEN Goto("health", "h_test") ELSE Goto("health", "h_done")
    /\ UNCHANGED <<running, exited, browser_process, browser_launch_time,
                   browser_restart_count, connection_failures, child, ret,
                   sweepLeft, tmp, attempt, consecutive_failures, kpc, config, netvars, obs,
                   clock, carried>>

\* if self.browser_process:
HealthTest ==
    /\ At("health", "h_test")
    /\ IF browser_process # None
       THEN Goto("health", "h_poll")
       ELSE Goto("health", "h_top")
    /\ UNCHANGED <<running, exited, browser_process, browser_launch_time,
                   browser_restart_count, connection_failures, child, ret,
                   sweepLeft, tmp, attempt, consecutive_failures, kpc, config, netvars, obs,
                   clock, carried>>

\* if self.browser_process.poll() is not None: elapsed < 15: ignore,
\* else self.restart_browser().  On None an AttributeError, caught by the
\* `except Exception` of the tick (sleep 30, next tick).
HealthPoll ==
    /\ At("health", "h_poll")
    /\ IF browser_process # None /\ ~Live(browser_process) /\ ~InStartupPhase
       THEN Call("health", "rb_entry", <<"h_top">>)
       ELSE Goto("health", "h_top")
    /\ UNCHANGED <<running, exited, browser_process, browser_launch_time,
                   browser_restart_count, connection_failures, child, ret,
                   sweepLeft, tmp, attempt, consecutive_failures, kpc, config, netvars, obs,
                   clock, carried>>

\* ---- screen_keepalive_thread (lines 247-258)
\* while self.running: time.sleep(30); keep_screen_alive(); ...
KeepaliveTick ==
    /\ exited = "no"
    /\ kpc = "k_loop"
    /\ kpc' = IF running THEN "k_loop" ELSE "k_done"
    /\ UNCHANGED <<running, exited, browser_process, browser_launch_time,
                   browser_restart_count, connection_failures, child, pc,
                   stack, ret, sweepLeft, tmp, attempt, consecutive_failures,
                   config, netvars, obs, clock, carried>>

\* ---- run (lines 920-1031)

\* for attempt in range(max_retries): if self.open_url(url): ...
RunStartup ==
    /\ At("main", "m_start")
    /\ Call("main", "cb_test", OpenUrlFrom(<<"m_started">>))
    /\ startup' = IF startup.phase = "none" THEN startup
                  ELSE [startup EXCEPT !.launches = @ + 1]
    /\ Elapse(0)
    /\ UNCHANGED <<running, exited, browser_process, browser_launch_time,
                   browser_restart_count, connection_failures, child, ret,
                   sweepLeft, tmp, attempt, consecutive_failures, kpc, config,
                   consecutive_network_failures, network_failover_triggered,
                   switched, episode_failovers, url_check, cmd, boot, reboots,
                   config_file, verify, x_wait, refresh, spawnvars, obs, carried>>

\* wait_time = min(5 + attempt, 15)
WaitTime(k) == Min(5 + k, 15)

\* the seconds slept by wait_for_x_server(max_wait=10) and after it: one per
\* failed probe, and time.sleep(10) when all ten probes have failed
RecheckSleep(failed) == failed + (IF failed = RecheckProbes THEN 10 ELSE 0)

\* the start-up once run has left its loop of attempts
Entered(opened) ==
    IF startup.phase = "none" THEN startup
    ELSE [startup EXCEPT !.in_loop = TRUE, !.opened = opened]

\* the start-up once run has waited for its next attempt
Waited(k, slept, failed) ==
    IF startup.phase = "none" THEN startup
    ELSE [startup EXCEPT !.retry = k, !.slept = slept,
                         !.recheck_failed = failed,
                         !.waited = slept + RecheckSleep(failed)]

\* a start-up loop that retries at a fixed pace
RunStartupResultFlat ==
    /\ At("main", "m_started")
    /\ IF ret["main"] \/ attempt >= StartupAttempts - 1
       THEN /\ attempt' = 0
            /\ Goto("main", "m_loop")
            /\ startup' = Entered(ret["main"])
            /\ Elapse(0)
       ELSE /\ attempt' = attempt + 1
            /\ Goto("main", "m_start")
            /\ \E failed \in {0, RecheckProbes} :
                 /\ startup' = Waited(attempt + 1, WaitTime(0), failed)
                 /\ Elapse(WaitTime(0) + RecheckSleep(failed))
    /\ ret' = [ret EXCEPT !["main"] = FALSE]
    /\ UNCHANGED <<running, exited, browser_process, browser_launch_time,
                   browser_restart_count, connection_failures, child,
                   sweepLeft, tmp, consecutive_failures, kpc, config,
                   consecutive_network_failures, network_failover_triggered,
                   switched, episode_failovers, url_check, cmd, boot, reboots,
                   config_file, verify, x_wait, refresh, spawnvars, obs, carried>>

\* browser_opened = True; break / time.sleep(wait_time), the re-check of the
\* X server (its first probe succeeds, or all ten fail) and the next attempt /
\* after the last attempt the main loop
RunStartupResult ==
    /\ At("main", "m_started")
    /\ IF ret["main"] \/ attempt >= StartupAttempts - 1
       THEN /\ attempt' = 0
            /\ Goto("main", "m_loop")
            /\ startup' = Entered(ret["main"])
            /\ Elapse(0)
       ELSE /\ attempt' = attempt + 1
            /\ Goto("main", "m_start")
            /\ \E failed \in {0, RecheckProbes} :
                 /\ startup' = Waited(attempt + 1, WaitTime(attempt), failed)
                 /\ Elapse(WaitTime(attempt) + RecheckSleep(failed))
    /\ ret' = [ret EXCEPT !["main"] = FALSE]
    /\ UNCHANGED <<running, exited, browser_process, browser_launch_time,
                   browser_restart_count, connection_failures, child,
                   sweepLeft, tmp, consecutive_failures, kpc, config,
                   consecutive_network_failures, network_failover_triggered,
                   switched, episode_failovers, url_check, cmd, boot, reboots,
                   config_file, verify, x_wait, refresh, spawnvars, obs, carried>>

\* while self.running: time.sleep(1) / after the loop self.close_browser()
\* and the return of run, which ends the process with status 0
RunLoopTop ==
    /\ exited = "no"
    /\ pc["main"] \in {"m_loop", "m_stopped"}
    /\ IF pc["main"] = "m_stopped"
       THEN /\ Exit("0")
            /\ UNCHANGED clock
       ELSE /\ IF running
               THEN Goto("main", "m_test")
               ELSE Call("main", "cb_test", <<"m_stopped">>)
            /\ Elapse(1)
            /\ UNCHANGED <<exited, ret, sweepLeft, tmp, attempt,
                           consecutive_failures, kpc>>
    /\ UNCHANGED <<running, browser_process, browser_launch_time,
                   browser_restart_count, connection_failures, child, config, netvars, obs,
                   carried>>

\* if self.browser_process:
RunTest ==
    /\ At("main", "m_test")
    /\ IF browser_process # None
       THEN Goto("main", "m_poll")
       ELSE Goto("main", "m_refresh")
    /\ Elapse(0)
    /\ UNCHANGED <<running, exited, browser_process, browser_launch_time,
                   browser_restart_count, connection_failures, child, ret,
                   sweepLeft, tmp, attempt, consecutive_failures, kpc, config, netvars, obs,
                   carried>>

\* An exception that leaves run is caught in main(): print, sys.exit(1).
Fatal == Exit("1")

\* if self.browser_process.poll() is not None: (lines 991-1003)
\* else: consecutive_failures = 0 and the connectivity check (lines 1004-1018)
RunPoll ==
    /\ At("main", "m_poll")
    /\ IF browser_process = None
       THEN /\ Fatal
            /\ UNCHANGED <<connection_failures, clock>>
       ELSE /\ IF ~Live(browser_process)
               THEN /\ IF InStartupPhase
                       THEN /\ Goto("main", "m_refresh")
                            /\ UNCHANGED consecutive_failures
                       ELSE /\ consecutive_failures' =
                                 Min(consecutive_failures + 1, MaxConsecFail)
                            /\ Call("main", "rb_entry", <<"m_restarted">>)
                    /\ Elapse(0)
                    /\ UNCHANGED connection_failures
               ELSE /\ consecutive_failures' = 0
                    /\ \E probe \in {"not_due", "reachable", "unreachable"} :
                         CASE probe = "not_due" ->
                                /\ Goto("main", "m_refresh")
                                /\ Elapse(0)
                                /\ UNCHANGED connection_failures
                           [] probe = "reachable" ->
                                /\ Goto("main", "m_refresh")
                                /\ Elapse(UrlCheckInterval)
                                /\ connection_failures' = 0
                           [] OTHER ->
                                /\ connection_failures < MaxConnFail
                                /\ connection_failures' =
                                     connection_failures + 1
                                /\ Elapse(UrlCheckInterval)
                                /\ Call("main", "rb_entry", <<"m_refresh">>)
            /\ UNCHANGED <<exited, ret, sweepLeft, tmp, attempt, kpc>>
    /\ UNCHANGED <<running, browser_process, browser_launch_time,
                   browser_restart_count, child, config, netvars, obs, carried>>

\* last_refresh = time.time(); if self.browser_process and ...
RunRestarted ==
    /\ At("main", "m_restarted")
    /\ IF browser_process # None
       THEN Goto("main", "m_repoll")
       ELSE Goto("main", "m_refresh")
    /\ Elapse(0)
    /\ UNCHANGED <<running, exited, browser_process, browser_launch_time,
                   browser_restart_count, connection_failures, child, ret,
                   sweepLeft, tmp, attempt, consecutive_failures, kpc, config, netvars, obs,
                   carried>>

\* ... self.browser_process.poll() is None: consecutive_failures = 0
RunRepoll ==
    /\ At("main", "m_repoll")
    /\ IF browser_process = None
       THEN /\ Fatal
            /\ UNCHANGED clock
       ELSE /\ consecutive_failures' =
                 IF Live(browser_process) THEN 0 ELSE consecutive_failures
            /\ Goto("main", "m_refresh")
            /\ Elapse(0)
            /\ UNCHANGED <<exited, ret, sweepLeft, tmp, attempt, kpc>>
    /\ UNCHANGED <<running, browser_process, browser_launch_time,
                   browser_restart_count, connection_failures, child, config, netvars, obs,
                   carried>>

\* refresh_page is called: nothing found or done yet
Called ==
    IF refresh.phase = "none" THEN refresh
    ELSE [phase |-> "on", handle |-> "unread", due |-> FALSE,
          reachable |-> TRUE, key |-> "no", restart |-> FALSE,
          result |-> "unset"]

\* what refresh_page found and which of its paths it took
Took(handle, due, reachable, key, restart, result) ==
    IF refresh.phase = "none" THEN refresh
    ELSE [phase |-> "on", handle |-> handle, due |-> due,
          reachable |-> reachable, key |-> key, restart |-> restart,
          result |-> result]

\* if elapsed >= refresh_interval: self.refresh_page()
RunRefresh ==
    /\ At("main", "m_refresh")
    /\ \E due \in BOOLEAN :
         IF due THEN /\ Call("main", "rp_test", <<"m_loop">>)
                     /\ refresh' = Called
                     /\ Elapse(RefreshInterval)
         ELSE /\ Goto("main", "m_loop")
              /\ UNCHANGED refresh
              /\ Elapse(0)
    /\ UNCHANGED <<running, exited, browser_process, browser_launch_time,
                   browser_restart_count, connection_failures, child, ret,
                   sweepLeft, tmp, attempt, consecutive_failures, kpc, config,
                   consecutive_network_failures, network_failover_triggered,
                   switched, episode_failovers, url_check, cmd, boot, reboots,
                   config_file, verify, x_wait, startup, spawnvars, obs,
                   carried>>

\* ---- refresh_page (lines 388-419), called by run only; every path that
\* restarts the browser returns True right after restart_browser

\* a refresh_page that relaunches by itself when there is no handle
RpTestDirect ==
    /\ At("main", "rp_test")
    /\ IF browser_process # None
       THEN /\ Goto("main", "rp_poll")
            /\ UNCHANGED refresh
       ELSE /\ Call("main", "cb_test", <<"ou_pre">>)
            /\ refresh' = Took("none", FALSE, TRUE, "no", TRUE, "True")
    /\ Elapse(0)
    /\ UNCHANGED <<running, exited, browser_process, browser_launch_time,
                   browser_restart_count, connection_failures, child, ret,
                   sweepLeft, tmp, attempt, consecutive_failures, kpc, config,
                   consecutive_network_failures, network_failover_triggered,
                   switched, episode_failovers, url_check, cmd, boot, reboots,
                   config_file, verify, x_wait, startup, spawnvars, obs,
                   carried>>

\* if self.browser_process and ... / else: self.restart_browser(); return True
RpTest ==
    /\ At("main", "rp_test")
    /\ IF browser_process # None
       THEN /\ Goto("main", "rp_poll")
            /\ UNCHANGED refresh
       ELSE /\ Goto("main", "rb_entry")
            /\ refresh' = Took("none", FALSE, TRUE, "no", TRUE, "True")
    /\ Elapse(0)
    /\ UNCHANGED <<running, exited, browser_process, browser_launch_time,
                   browser_restart_count, connection_failures, child, ret,
                   sweepLeft, tmp, attempt, consecutive_failures, kpc, config,
                   consecutive_network_failures, network_failover_triggered,
                   switched, episode_failovers, url_check, cmd, boot, reboots,
                   config_file, verify, x_wait, startup, spawnvars, obs,
                   carried>>

\* the inputs of refresh_page with a live child: the connectivity check is
\* due (url and time.time() - self.last_url_check > 30) or not, the URL is
\* reachable or not, the xdotool call returns or raises
RefreshInputs ==
    [due : BOOLEAN, reachable : BOOLEAN, key : {"sent", "raised"}]

\* a refresh_page that sends the key without looking at the connectivity
RpPollOptimistic ==
    /\ At("main", "rp_poll")
    /\ IF browser_process = None
       THEN /\ Fatal
            /\ UNCHANGED <<clock, refresh>>
       ELSE /\ IF Live(browser_process)
               THEN \E in \in RefreshInputs :
                      IF in.key = "sent"
                      THEN /\ Return("main")
                           /\ refresh' = Took("live", in.due,
                                               in.due => in.reachable,
                                               "sent", FALSE, "True")
                      ELSE /\ Goto("main", "rb_entry")
                           /\ refresh' = Took("live", in.due,
                                               in.due => in.reachable,
                                               "raised", TRUE, "True")
               ELSE /\ Goto("main", "rb_entry")
                    /\ refresh' = Took("exited", FALSE, TRUE, "no", TRUE,
                                        "True")
            /\ Elapse(RefreshProbeInterval)
            /\ UNCHANGED <<exited, ret, sweepLeft, tmp, attempt,
                           consecutive_failures, kpc>>
    /\ UNCHANGED <<running, browser_process, browser_launch_time,
                   browser_restart_count, connection_failures, child, config,
                   consecutive_network_failures, network_failover_triggered,
                   switched, episode_failovers, url_check, cmd, boot, reboots,
                   config_file, verify, x_wait, startup, spawnvars, obs,
                   carried>>

\* a refresh_page that reports a key it could not send
RpPollReporting ==
    /\ At("main", "rp_poll")
    /\ IF browser_process = None
       THEN /\ Fatal
            /\ UNCHANGED <<clock, refresh>>
       ELSE /\ IF Live(browser_process)
               THEN \E in \in RefreshInputs :
                      IF in.due /\ ~in.reachable
                      THEN /\ Goto("main", "rb_entry")
                           /\ refresh' = Took("live", TRUE, FALSE, "no",
                                               TRUE, "True")
                      ELSE IF in.key = "sent"
                      THEN /\ Return("main")
                           /\ refresh' = Took("live", in.due, TRUE, "sent",
                                               FALSE, "True")
                      ELSE /\ Goto("main", "rb_entry")
                           /\ refresh' = Took("live", in.due, TRUE, "raised",
                                               TRUE, "False")
               ELSE /\ Goto("main", "rb_entry")
                    /\ refresh' = Took("exited", FALSE, TRUE, "no", TRUE,
                                        "True")
            /\ Elapse(RefreshProbeInterval)
            /\ UNCHANGED <<exited, ret, sweepLeft, tmp, attempt,
                           consecutive_failures, kpc>>
    /\ UNCHANGED <<running, browser_process, browser_launch_time,
                   browser_restart_count, connection_failures, child, config,
                   consecutive_network_failures, network_failover_triggered,
                   switched, episode_failovers, url_check, cmd, boot, reboots,
                   config_file, verify, x_wait, startup, spawnvars, obs,
                   carried>>

\* ... self.browser_process.poll() is None: when the check is due and the URL
\* is not reachable, restart_browser and return True; otherwise the F5 key
\* and return True, or, the xdotool call raising, restart_browser and return
\* True / else (the child has exited): restart_browser and return True
RpPoll ==
    /\ At("main", "rp_poll")
    /\ IF browser_process = None
       THEN /\ Fatal
            /\ UNCHANGED <<clock, refresh>>
       ELSE /\ IF Live(browser_process)
               THEN \E in \in RefreshInputs :
                      IF in.due /\ ~in.reachable
                      THEN /\ Goto("main", "rb_entry")
                           /\ refresh' = Took("live", TRUE, FALSE, "no",
                                               TRUE, "True")
                      ELSE IF in.key = "sent"
                      THEN /\ Return("main")
                           /\ refresh' = Took("live", in.due, TRUE, "sent",
                                               FALSE, "True")
                      ELSE /\ Goto("main", "rb_entry")
                           /\ refresh' = Took("live", in.due, TRUE, "raised",
                                               TRUE, "True")
               ELSE /\ Goto("main", "rb_entry")
                    /\ refresh' = Took("exited", FALSE, TRUE, "no", TRUE,
                                        "True")
            /\ Elapse(RefreshProbeInterval)
            /\ UNCHANGED <<exited, ret, sweepLeft, tmp, attempt,
                           consecutive_failures, kpc>>
    /\ UNCHANGED <<running, browser_process, browser_launch_time,
                   browser_restart_count, connection_failures, child, config,
                   consecutive_network_failures, network_failover_triggered,
                   switched, episode_failovers, url_check, cmd, boot, reboots,
                   config_file, verify, x_wait, startup, spawnvars, obs,
                   carried>>

\* ---- signal_handler (lines 183-188), run on the main thread in place of
\* whatever the main thread was doing: self.running = False;
\* self.close_browser(); sys.exit(0)
Signal ==
    /\ exited = "no"
    /\ running
    /\ running' = FALSE
    /\ pc' = [pc EXCEPT !["main"] = "cb_test"]
    /\ stack' = [stack EXCEPT !["main"] = <<"sg_exit">>]
    /\ ret' = [ret EXCEPT !["main"] = FALSE]
    /\ sweepLeft' = [sweepLeft EXCEPT !["main"] = 0]
    /\ tmp' = [tmp EXCEPT !["main"] = 0]
    /\ attempt' = 0
    /\ consecutive_failures' = 0
    /\ UNCHANGED <<exited, browser_process, browser_launch_time,
                   browser_restart_count, connection_failures, child, kpc,
                   config, netvars, obs, clock, carried>>

SignalExit ==
    /\ At("main", "sg_exit")
    /\ Exit("0")
    /\ UNCHANGED <<running, browser_process, browser_launch_time,
                   browser_restart_count, connection_failures, child, config, netvars, obs,
                   clock, carried>>

\* ---- the environment

\* a browser exits on its own (crash, Alt+F4)
ChildExit(c) ==
    /\ exited = "no"
    /\ Live(c)
    /\ child' = Collect([child EXCEPT ![c] = Exited(@)], browser_process,
                        browser_launch_time)
    /\ Elapse(0)
    /\ UNCHANGED <<running, exited, browser_process, browser_launch_time,
                   browser_restart_count, connection_failures, pc, stack, ret,
                   sweepLeft, tmp, attempt, consecutive_failures, kpc, config, netvars, obs,
                   carried>>

\* 15 s have passed since the launch of c
GraceElapses(c) ==
    /\ exited = "no"
    /\ child[c] \in {"live_young", "dead_early_young"}
    /\ child' = [child EXCEPT ![c] =
                   IF @ = "live_young" THEN "live_old" ELSE "dead_early_old"]
    /\ Elapse(GraceWindow)
    /\ UNCHANGED <<running, exited, browser_process, browser_launch_time,
                   browser_restart_count, connection_failures, pc, stack, ret,
                   sweepLeft, tmp, attempt, consecutive_failures, kpc, config, netvars, obs,
                   carried>>

\* ---- specifications
RunStep ==
    \/ CloseBrowser("main") \/ OpenUrl("main") \/ RestartBrowser("main")
    \/ RunStartup \/ RunStartupResult \/ RunLoopTop \/ RunTest \/ RunPoll
    \/ RunRestarted \/ RunRepoll \/ RunRefresh \/ RpTest \/ RpPoll

MainStep == RunStep \/ SignalExit

HealthStep ==
    \/ CloseBrowser("health") \/ OpenUrl("health") \/ RestartBrowser("health")
    \/ HealthTop \/ HealthTest \/ HealthPoll

Environment == \E c \in Children : ChildExit(c) \/ GraceElapses(c)

\* the program as it runs: three threads, the signal, the environment
Next == MainStep \/ HealthStep \/ KeepaliveTick \/ Signal \/ Environment

Spec == Init /\ [][Next]_vars

\* the main thread alone: the operations of the supervisor in sequence
NextSeq == RunStep \/ Environment

SpecSeq == Init /\ [][NextSeq]_vars

\* the main thread alone, observed against the nominal time of its steps
SpecTimed == InitWith(TRUE, ScenarioCap) /\ [][NextSeq]_vars

\* the main thread and the health thread under the fair scheduling of the
\* operating system; a refresh falls due again and again; time passes
RunRefreshDue == RunRefresh /\ pc'["main"] = "rp_test"

Fairness ==
    /\ WF_vars(MainStep)
    /\ WF_vars(HealthStep)
    /\ SF_vars(RunRefreshDue)
    /\ \A c \in Children : WF_vars(GraceElapses(c))

FairSpec == Init /\ [][Next]_vars /\ Fairness

\* ---- where a thread is
CbLabels == {"cb_test", "cb_term", "cb_wait", "cb_kill", "cb_clear", "cb_sweep"}
OuLabels == {"ou_pre", "ou_spawn", "ou_chk1", "ou_chk2"}
RbLabels == {"rb_entry", "rb_limit", "rb_open", "rb_result", "rb_incr"}

\* thread t is inside close_browser, open_url or restart_browser
InSupervisorOp(t) == pc[t] \in CbLabels \cup OuLabels \cup RbLabels

\* thread t is inside open_url (its leading close_browser included)
InOpenUrl(t) ==
    \/ pc[t] \in OuLabels
    \/ pc[t] \in CbLabels /\ stack[t] # <<>> /\ Head(stack[t]) = "ou_pre"

\* the main thread is inside an open_url called by the start-up loop of run
InOpenUrlAtStartup ==
    /\ stack["main"] # <<>>
    /\ stack["main"][Len(stack["main"])] = "m_started"

\* thread t is inside the close_browser that open_url makes right after the
\* close_browser of restart_browser
InSecondClose(t) ==
    /\ pc[t] \in CbLabels
    /\ Len(stack[t]) >= 2
    /\ stack[t][1] = "ou_pre"
    /\ stack[t][2] = "rb_result"

\* ---- the claims

\* C1: in every reachable state, under any interleaving of run, the
\* health-check thread and the signal handler, at most one browser child
\* spawned by open_url is live.
C1_AtMostOneLiveChild == Cardinality(LiveChildren) <= 1

\* C2: executions of close_browser, open_url and restart_browser on the shared
\* handle are mutually exclusive: the main thread and the health-check thread
\* are never inside one of them at the same time.
C2_MutualExclusion == ~(InSupervisorOp("main") /\ InSupervisorOp("health"))

\* C3: within the observed window (far shorter than 60 minutes) the restarts
\* that restart_browser carries out never exceed the configured cap.
C3_RestartsWithinCap == carried <= config.max_browser_restarts

\* thread t, at its poll of the handle (label l), finds the child exited:
\* if self.browser_process.poll() is not None
DetectsExit(t, l) ==
    /\ exited = "no" /\ exited' = "no" /\ running' = running
    /\ pc[t] = l /\ pc'[t] # l
    /\ browser_process # None
    /\ child[browser_process] \in DeadStatus

\* C4: for every exit of the child detected by the main loop or the
\* health-check thread: an exit within the grace window of that child neither
\* increments consecutive_failures nor requests a restart; an exit after the
\* grace window increments consecutive_failures and requests a restart.
C4_GraceWindow ==
    [][\A t \in Workers :
         DetectsExit(t, IF t = "main" THEN "m_poll" ELSE "h_poll") =>
           IF child[browser_process] = "dead_late"
           THEN /\ consecutive_failures' =
                     Min(consecutive_failures + 1, MaxConsecFail)
                /\ pc'[t] = "rb_entry"
           ELSE /\ consecutive_failures' = consecutive_failures
                /\ pc'[t] # "rb_entry"]_vars

\* C5: the supervisor never permanently gives up: under fair scheduling,
\* whenever running is true and no browser is live, a launch attempt (a call
\* of open_url) eventually occurs, unless running becomes false.
C5_NeverGivesUp ==
    (running /\ LiveChildren = {}) ~>
        (~running \/ \E t \in Workers : InOpenUrl(t))

\* C6: no transient condition and no interleaving of the health-check thread
\* with the main loop makes the supervisor terminate with an error.
C6_NeverFatal == exited # "1"

\* C7: when the supervisor exits with status 0 after a signal, no browser
\* child it spawned is live.
C7_NoChildAtExit == exited = "0" => LiveChildren = {}

\* C8: once running is false, no thread starts a restart of the browser.
C8_NoRestartAfterStop ==
    [][~running =>
         \A t \in Workers : pc'[t] = "rb_entry" => pc[t] = "rb_entry"]_vars

\* C9: when a call of close_browser returns, browser_process is None.
C9_HandleClearedOnReturn ==
    [][\A t \in Workers :
         (/\ exited = "no" /\ exited' = "no" /\ running' = running
          /\ pc[t] = "cb_sweep" /\ pc'[t] # "cb_sweep")
         => browser_process' = None]_vars

\* C10: close_browser is idempotent: the second of two calls in succession
\* (restart_browser, then open_url) changes neither browser_process nor
\* browser_launch_time nor any counter, and it does not fail.
C10_SecondCloseChangesNothing ==
    [][InSecondClose("main") =>
         /\ UNCHANGED <<browser_process, browser_launch_time,
                        browser_restart_count, connection_failures,
                        consecutive_failures, running>>
         /\ exited' = "no"
         /\ pc'["main"] \in CbLabels \cup {"ou_pre"}]_vars

\* the second call has returned to open_url
C10_SecondCloseReturned ==
    /\ pc["main"] = "ou_pre"
    /\ stack["main"] # <<>>
    /\ Head(stack["main"]) = "rb_result"

\* the step by which thread t returns from open_url to its caller
OpenUrlReturns(t) ==
    /\ pc[t] \in OuLabels
    /\ stack[t] # <<>>
    /\ pc'[t] = Head(stack[t])
    /\ stack'[t] = Tail(stack[t])

C12_LaunchedWhateverTheProbes ==
    [][\A t \in Workers :
         (/\ pc[t] = "ou_pre"
          /\ \/ connection_failures' > connection_failures
             \/ pc'[t] # "ou_pre" /\ ~OpenUrlReturns(t))
         => (pc'[t] = "ou_spawn" /\ ret'[t] = ret[t])]_vars

\* a child spawned by an open_url whose connectivity probes had failed
C12_SpawnedAfterFailedProbes ==
    /\ pc["main"] = "ou_chk1"
    /\ connection_failures > 0
    /\ browser_process # None
    /\ Live(browser_process)

OnStack(t, l) == \E i \in 1..Len(stack[t]) : stack[t][i] = l

\* thread t is inside restart_browser (the calls it makes included)
InRestart(t) ==
    \/ pc[t] \in RbLabels
    \/ OnStack(t, "rb_open")
    \/ OnStack(t, "rb_result")

\* C13: whoever is inside open_url is there for a start-up launch of run or
\* inside restart_browser; restart_browser is entered at its restart-limit
\* check only, and that check is evaluated before anything else is done.
C13_SoleGate ==
    [][\A t \in Workers :
         /\ InOpenUrl(t)' => (InRestart(t)' \/ OnStack(t, "m_started")')
         /\ (InRestart(t)' /\ ~InRestart(t)) => pc'[t] = "rb_entry"
         /\ (/\ pc[t] = "rb_entry" /\ pc'[t] # "rb_entry"
             /\ exited' = "no" /\ running' = running)
            => IF browser_restart_count >= config.max_browser_restarts
               THEN pc'[t] = "rb_limit"
               ELSE pc'[t] = "cb_test" /\ Head(stack'[t]) = "rb_open"]_vars

\* the health-check thread has respawned the browser through restart_browser
C13_RespawnedThroughGate ==
    /\ pc["health"] = "ou_chk1"
    /\ InRestart("health")
    /\ browser_process # None
    /\ Live(browser_process)

C15_NoLostIncrement ==
    [][\A t \in Workers :
         (/\ pc[t] = "rb_incr" /\ pc'[t] # "rb_incr"
          /\ exited' = "no" /\ running' = running
          /\ browser_restart_count >= tmp[t])
         => browser_restart_count' =
              Min(browser_restart_count + 1,
                  config.max_browser_restarts + 1)]_vars

\* ---- check_url_connectivity (lines 535-580), as a function of what the
\* URL, the resolver and the HTTP exchange give

\* return response.status in [200, 301, 302, 303, 307, 308]
AcceptedStatuses == {200, 301, 302, 303, 307, 308}

\* socket.gethostbyname(hostname): it returns, raises socket.gaierror, or
\* raises something else (UnicodeError for a hostname that cannot be encoded)
DnsOutcomes == {"resolved", "gaierror", "other_error"}

\* urllib.request.urlopen: it hands back a response for a 2xx status only (a
\* redirect is followed, every other status is raised as HTTPError), or it
\* raises HTTPError with the status, URLError, or something else
ResponseStatuses == {200, 201, 204, 206}
ErrorStatuses == {300, 304, 400, 404, 499, 500, 503}
HttpOutcomes ==
    [kind : {"response"}, status : ResponseStatuses]
    \cup [kind : {"http_error"}, status : ErrorStatuses]
    \cup [kind : {"url_error", "other_error"}, status : {0}]

\* result: the value returned; fetched: urlopen was called
CheckUrlConnectivity(has_hostname, dns, http) ==
    IF ~has_hostname \/ dns = "gaierror"
    THEN [result |-> FALSE, fetched |-> FALSE]
    ELSE [result |-> CASE http.kind = "response" ->
                            http.status \in AcceptedStatuses
                       [] http.kind = "http_error" -> http.status < 500
                       [] OTHER -> FALSE,
          fetched |-> TRUE]

UrlCheckInputs ==
    [phase : {"pending"}, has_hostname : BOOLEAN, dns : DnsOutcomes,
     http : HttpOutcomes]

InitUrlCheck ==
    \E p \in UrlCheckInputs :
        InitFrom(FALSE, Config(MaxBrowserRestarts, FALSE), p)

\* one call of check_url_connectivity
CheckUrl ==
    /\ url_check.phase = "pending"
    /\ LET out == CheckUrlConnectivity(url_check.has_hostname, url_check.dns,
                                       url_check.http)
       IN url_check' = [phase |-> "done",
                        has_hostname |-> url_check.has_hostname,
                        dns |-> url_check.dns,
                        http |-> url_check.http,
                        result |-> out.result,
                        fetched |-> out.fetched]
    /\ UNCHANGED <<running, exited, browser_process, browser_launch_time,
                   browser_restart_count, connection_failures, child, pc,
                   stack, ret, sweepLeft, tmp, attempt, consecutive_failures,
                   kpc, config, consecutive_network_failures,
                   network_failover_triggered, switched, episode_failovers,
                   auxvars, spawnvars, obs, clock, carried>>

\* check_url_connectivity on every input
SpecUrlCheck == InitUrlCheck /\ [][CheckUrl]_vars

\* C16: a call of check_url_connectivity for a hostname whose resolution
\* fails has not called urlopen: no HTTP request is attempted.
C16_NoFetchWithoutDns ==
    (/\ url_check.phase = "done"
     /\ url_check.has_hostname
     /\ url_check.dns # "resolved")
    => ~url_check.fetched

\* C17: for a resolving hostname check_url_connectivity returns True for a
\* response with a 2xx or 3xx status and for an error response with a status
\* below 500, and False for a status of 500 or more and a connection error.
C17_StatusVerdict ==
    (/\ url_check.phase = "done"
     /\ url_check.has_hostname
     /\ url_check.dns = "resolved")
    => url_check.result =
         (/\ url_check.http.kind \in {"response", "http_error"}
          /\ url_check.http.status >= 200
          /\ url_check.http.status < 500)

\* ---- the network part of a tick of health_check_thread (lines 287-302) and
\* force_network_failover (lines 617-694).  Only the health-check thread
\* reads or writes consecutive_network_failures and
\* network_failover_triggered, and this part of its tick touches nothing of
\* the browser, so the part is one step.

\* a force_network_failover that does not look at network_failover_enabled
ForceNetworkFailoverUnconditional ==
    /\ network_failover_triggered' = TRUE
    /\ episode_failovers' = Min(episode_failovers + 1, MaxEpisodeFailovers)
    /\ \E interfaces_found \in BOOLEAN :
         switched' = (switched \/ interfaces_found)

\* a force_network_failover that does not set network_failover_triggered
ForceNetworkFailoverUnflagged ==
    IF ~config.network_failover_enabled
    THEN UNCHANGED <<network_failover_triggered, switched, episode_failovers>>
    ELSE /\ UNCHANGED network_failover_triggered
         /\ episode_failovers' =
              Min(episode_failovers + 1, MaxEpisodeFailovers)
         /\ \E interfaces_found \in BOOLEAN :
              switched' = (switched \/ interfaces_found)

\* if not enabled: return; self.network_failover_triggered = True; without an
\* ethernet or a WiFi interface: return; else disconnect the one and connect
\* the other (nmcli, or ifdown and ifup), sleep(5), and a probe whose result
\* is only logged
ForceNetworkFailover ==
    IF ~config.network_failover_enabled
    THEN UNCHANGED <<network_failover_triggered, switched, episode_failovers>>
    ELSE /\ network_failover_triggered' = TRUE
         /\ episode_failovers' =
              Min(episode_failovers + 1, MaxEpisodeFailovers)
         /\ \E interfaces_found \in BOOLEAN :
              switched' = (switched \/ interfaces_found)

\* if not self.check_url_connectivity(url): the counter += 1, and
\* force_network_failover() if it is >= 3 and not network_failover_triggered
\* else: the counter = 0; network_failover_triggered = False
\* (the counter is kept up to MaxNetFail: all values from the threshold on
\* take the same branch)
HealthNetworkCheck ==
    /\ exited = "no"
    /\ running
    /\ \E reachable \in BOOLEAN :
         IF reachable
         THEN /\ consecutive_network_failures' = 0
              /\ network_failover_triggered' = FALSE
              /\ episode_failovers' = 0
              /\ UNCHANGED switched
         ELSE /\ consecutive_network_failures' =
                   Min(consecutive_network_failures + 1, MaxNetFail)
              /\ IF /\ consecutive_network_failures + 1 >= FailoverThreshold
                    /\ ~network_failover_triggered
                 THEN ForceNetworkFailover
                 ELSE UNCHANGED <<network_failover_triggered, switched,
                                  episode_failovers>>
    /\ UNCHANGED <<running, exited, browser_process, browser_launch_time,
                   browser_restart_count, connection_failures, child, pc,
                   stack, ret, sweepLeft, tmp, attempt, consecutive_failures,
                   kpc, config, url_check, auxvars, spawnvars, obs, clock,
                   carried>>

InitNet ==
    \E enabled \in BOOLEAN :
        InitFrom(FALSE, Config(MaxBrowserRestarts, enabled), NoProbe)

\* the main thread with its probes, and the network checks of the
\* health-check thread
NextNet == RunStep \/ Environment \/ HealthNetworkCheck

SpecNet == InitNet /\ [][NextNet]_vars

\* C18: the failover is attempted at most once between two successful probes
\* of the health-check thread: it runs only with network_failover_triggered
\* false and sets it, and only a successful probe sets it back to false.
C18_OncePerEpisode ==
    [][/\ episode_failovers' <= 1
       /\ episode_failovers' > episode_failovers =>
            (~network_failover_triggered /\ network_failover_triggered')
       /\ (network_failover_triggered /\ ~network_failover_triggered') =>
            (/\ consecutive_network_failures' = 0
             /\ consecutive_network_failures >= FailoverThreshold
             /\ episode_failovers' = 0)]_vars

\* the failover has run and the probes after it have failed as well
C18_FailoverHeldBack ==
    /\ config.network_failover_enabled
    /\ network_failover_triggered
    /\ episode_failovers = 1
    /\ consecutive_network_failures > FailoverThreshold

\* C19: every failed probe, whoever makes it, adds one to
\* consecutive_network_failures, and a successful probe after failures sets
\* it to zero: so do the probes of the main loop and of open_url, which are
\* the steps that raise connection_failures or set it back to zero.
C19_CountsEveryProbe ==
    [][/\ connection_failures' > connection_failures =>
            consecutive_network_failures' =
              Min(consecutive_network_failures + 1, MaxNetFail)
       /\ connection_failures' < connection_failures =>
            consecutive_network_failures' = 0]_vars

\* C20: the interfaces are switched only with network_failover_enabled true
\* and only by a check that has just counted a failed probe and found the
\* counter at the threshold or above; with the feature disabled they never are.
C20_SwitchOnlyWhenEnabledAtThreshold ==
    [][/\ (switched' /\ ~switched) =>
            /\ config.network_failover_enabled
            /\ consecutive_network_failures' >= FailoverThreshold
            /\ consecutive_network_failures' > consecutive_network_failures
       /\ ~config.network_failover_enabled => ~switched']_vars

\* the interfaces have been switched
C20_Switched ==
    /\ switched
    /\ consecutive_network_failures >= FailoverThreshold

\* ---- the command line of open_url for every configuration of the flags

\* the flags a configuration is drawn from: one harmless flag, the six
\* bypass flags, and two of them with a value
FlagUniverse ==
    {Flag("--kiosk"), IgnoreCertificateErrors, IgnoreSslErrors, SpkiList,
     SpkiList \o <<"=HASH">>, AllowInsecureContent, TreatOriginAsSecure,
     TreatOriginAsSecure \o <<"=http://kiosk.local">>, DisableWebSecurity}

FlagLists == UNION {[1..n -> FlagUniverse] : n \in 0..MaxFlags}

FlagConfigs ==
    {[Config(MaxBrowserRestarts, FALSE) EXCEPT !.kiosk_flags = k,
                                               !.cert_installed = c,
                                               !.ignore_ssl_errors = i] :
        k \in FlagLists, c \in BOOLEAN, i \in BOOLEAN}

InitFlags ==
    /\ \E cfg \in FlagConfigs : InitCore(FALSE, cfg)
    /\ cmd = [phase |-> "pending"]
    /\ Idle({"cmd"})

\* open_url from the flag list to the command line
BuildCmd ==
    /\ cmd.phase = "pending"
    /\ cmd' = [phase |-> "built",
               argv |-> Cmd(config.browser, config, config.url)]
    /\ UNCHANGED <<running, exited, browser_process, browser_launch_time,
                   browser_restart_count, connection_failures, child, pc,
                   stack, ret, sweepLeft, tmp, attempt, consecutive_failures,
                   kpc, config, consecutive_network_failures,
                   network_failover_triggered, switched, episode_failovers,
                   url_check, boot, reboots, config_file, callvars, spawnvars, obs,
                   clock, carried>>

\* the command line of open_url for every configuration of the flags
SpecFlags == InitFlags /\ [][BuildCmd]_vars

Count(seq, x) == Cardinality({i \in 1..Len(seq) : seq[i] = x})
OnCmdLine(flag) == \E i \in 1..Len(cmd.argv) : FlagName(cmd.argv[i]) = flag
BuiltFlags == SubSeq(cmd.argv, 2, Len(cmd.argv) - 1)

\* C21: with cert_installed the command line holds none of the six bypass
\* flags; without it and with ignore_ssl_errors each of the six is on the
\* command line and was added at most once; with neither the configured
\* flags are passed as they are.
C21_BypassFlags ==
    cmd.phase = "built" =>
        /\ config.cert_installed =>
             \A i \in 1..Len(SslFlags) : ~OnCmdLine(SslFlags[i])
        /\ (~config.cert_installed /\ config.ignore_ssl_errors) =>
             \A i \in 1..Len(SslFlags) :
                /\ OnCmdLine(SslFlags[i])
                /\ Count(BuiltFlags, SslFlags[i])
                     <= Count(config.kiosk_flags, SslFlags[i]) + 1
        /\ (~config.cert_installed /\ ~config.ignore_ssl_errors) =>
             BuiltFlags = config.kiosk_flags

\* ---- start-up: Piview.__init__ (lines 49-83) with setup_logging (lines
\* 128-169) and load_config (lines 323-344), under main (lines 1033-1040)

\* a configuration file: not there, a JSON object, not openable for reading,
\* not JSON, not UTF-8, or JSON that is not an object (a number, null, a
\* non-empty list)
ConfigFileStates ==
    {"absent", "valid", "unreadable", "malformed", "not_utf8", "not_object"}

\* setup_logging: without the log directory no logger (log() prints),
\* without the log file the console handler alone; no exception leaves it
SetupLogging(log_dir, log_file) ==
    IF log_dir = "uncreatable" THEN "print"
    ELSE IF log_file = "uncreatable" THEN "console"
    ELSE "file_and_console"

\* config_file = USER_CONFIG_FILE if USER_CONFIG_FILE.exists() else CONFIG_FILE
ConfigFile(user_config, system_config) ==
    IF user_config # "absent" THEN user_config ELSE system_config

\* the configuration a valid file holds, merged over DEFAULT_CONFIG
LoadedConfig == [Config(MaxBrowserRestarts, FALSE) EXCEPT
                     !.url = <<"http://kiosk.local">>]

\* load_config: the defaults without a file; the merged record; the defaults
\* after `except (json.JSONDecodeError, IOError)`; any other exception
\* (UnicodeDecodeError from read, TypeError or ValueError from update) leaves
\* the call
LoadConfig(user_config, system_config) ==
    LET file == ConfigFile(user_config, system_config)
    IN CASE file = "absent" ->
              [raised |-> FALSE, config |-> Config(MaxBrowserRestarts, FALSE)]
         [] file = "valid" ->
              [raised |-> FALSE, config |-> LoadedConfig]
         [] file \in {"unreadable", "malformed"} ->
              [raised |-> FALSE, config |-> Config(MaxBrowserRestarts, FALSE)]
         [] OTHER ->
              [raised |-> TRUE, config |-> Config(MaxBrowserRestarts, FALSE)]

BootInputs ==
    [phase : {"pending"},
     log_dir : {"ok", "uncreatable"},
     log_file : {"ok", "uncreatable"},
     user_config : ConfigFileStates,
     system_config : ConfigFileStates]

InitBoot ==
    /\ InitCore(FALSE, Config(MaxBrowserRestarts, FALSE))
    /\ boot \in BootInputs
    /\ Idle({"boot"})

\* main: piview = Piview(), and `except Exception: sys.exit(1)`
Boot ==
    /\ boot.phase = "pending"
    /\ LET loaded == LoadConfig(boot.user_config, boot.system_config)
       IN /\ boot' = [phase |-> "done",
                      log_dir |-> boot.log_dir,
                      log_file |-> boot.log_file,
                      user_config |-> boot.user_config,
                      system_config |-> boot.system_config,
                      logger |-> SetupLogging(boot.log_dir, boot.log_file),
                      exit |-> IF loaded.raised THEN "1" ELSE "no"]
          /\ config' = loaded.config
    /\ UNCHANGED <<running, exited, browser_process, browser_launch_time,
                   browser_restart_count, connection_failures, child, pc,
                   stack, ret, sweepLeft, tmp, attempt, consecutive_failures,
                   kpc, consecutive_network_failures,
                   network_failover_triggered, switched, episode_failovers,
                   url_check, cmd, reboots, config_file, callvars, spawnvars, obs,
                   clock, carried>>

\* the start-up for every state of the two configuration files and of the log
SpecBoot == InitBoot /\ [][Boot]_vars

\* C23: when the configuration file that is there cannot be read or parsed,
\* or the log file (or its directory) cannot be created, the start-up ends
\* the process with exit status 1.
C23_FatalConfigError ==
    boot.phase = "done" =>
        ((\/ ConfigFile(boot.user_config, boot.system_config)
                \notin {"absent", "valid"}
          \/ boot.log_dir = "uncreatable"
          \/ boot.log_file = "uncreatable")
         => boot.exit = "1")

\* ---- a child that is alive and does not respond, and the count of failed
\* restarts: what the monitors do about them (lines 262-274 and 988-1005)

\* a configuration file with the keys of the watchdog and of the automatic
\* reboot: load_config merges every key of the file over the defaults
WatchConfig(reboot_enabled) ==
    Config(MaxBrowserRestarts, FALSE) @@
    [watchdog_freeze_threshold |-> 120,
     watchdog_check_interval |-> 30,
     auto_reboot_enabled |-> reboot_enabled,
     auto_reboot_after_failures |-> MaxConsecFail]

InitWatch ==
    /\ \E reboot_enabled \in BOOLEAN :
          InitCore(FALSE, WatchConfig(reboot_enabled))
    /\ Idle({})

\* watchdog_check_interval seconds pass with the main thread in its loop and
\* the child of the handle alive, launched more than 15 s ago; the child
\* responds or it does not.  The monitors only poll for its exit: no
\* statement of the program runs on this.
CheckInterval ==
    /\ At("main", "m_loop")
    /\ browser_process # None
    /\ Live(browser_process)
    /\ Aged(browser_process)
    /\ \E responsive \in BOOLEAN :
         unresponsive_checks' =
            IF responsive THEN 0
            ELSE Min(unresponsive_checks + 1, MaxUnresponsive)
    /\ UNCHANGED <<running, exited, browser_process, browser_launch_time,
                   browser_restart_count, connection_failures, child, pc,
                   stack, ret, sweepLeft, tmp, attempt, consecutive_failures,
                   kpc, config, gatevars, launched_url, racing, grace, obs, clock,
                   carried>>

NextWatch == NextSeq \/ CheckInterval

\* the main thread, and a child that may stop responding
SpecWatch == InitWatch /\ [][NextWatch]_vars

\* C24: once the child has failed ceil(freeze_threshold / check_interval)
\* consecutive checks (4 for 120 s and 30 s) it has been killed: it is not
\* alive with that many unresponsive checks behind it.
C24_KilledAtThreshold ==
    LET freeze_threshold == config.watchdog_freeze_threshold
        check_interval == config.watchdog_check_interval
    IN unresponsive_checks
           >= (freeze_threshold + check_interval - 1) \div check_interval
         => ~(browser_process # None /\ Live(browser_process))

\* C25: with auto_reboot_enabled a reboot command has been issued, once, when
\* the count of consecutive failures has reached auto_reboot_after_failures;
\* without it none is ever issued.
C25_RebootOnce ==
    /\ (/\ config.auto_reboot_enabled
        /\ consecutive_failures >= config.auto_reboot_after_failures)
           => reboots = 1
    /\ ~config.auto_reboot_enabled => reboots = 0

\* ---- the URL manager (src/url_manager.py): POST /api/save rewrites
\* ~/.piview/config.json, the file the supervisor loaded at its start-up

\* url.strip()
Strip(url) ==
    CASE url = " http://kiosk.local " -> "http://kiosk.local"
      [] url = " " -> ""
      [] OTHER -> url

UrlInputs ==
    {"http://kiosk.local", " http://kiosk.local ", "http://signage.local",
     " "}

\* [url.strip() for url in data.get('urls', []) if url.strip()]
RECURSIVE StrippedUrls(_)
StrippedUrls(urls) ==
    IF urls = <<>> THEN <<>>
    ELSE IF Strip(Head(urls)) # ""
         THEN <<Strip(Head(urls))>> \o StrippedUrls(Tail(urls))
         ELSE StrippedUrls(Tail(urls))

\* int(data.get('display_time', 30)): a ValueError for what is not a number
DisplayTimeInputs == {"45", "soon"}
IsInt(text) == text = "45"

\* the requests of the URL manager's page and of any other client
SaveRequests ==
    [urls : UNION {[1..n -> UrlInputs] : n \in 0..MaxUrls},
     display_time : DisplayTimeInputs]

\* the file as the supervisor found it at its start-up
FileOf(cfg) ==
    [phase |-> "file", url |-> cfg.url, urls |-> <<>>, display_time |-> "30",
     saved |-> FALSE, between_cycles |-> FALSE]

InitSave ==
    /\ InitCore(FALSE, Config(MaxBrowserRestarts, FALSE))
    /\ config_file = FileOf(Config(MaxBrowserRestarts, FALSE))
    /\ Idle({"config_file"})

\* do_POST for /api/save: the file's record with `urls` and `display_time`
\* replaced is written back and {'status': 'success'} is answered; an
\* exception before save_config leaves the file as it is and answers nothing
\* (between_cycles: the save found the supervisor's main thread asleep at the
\* top of its loop)
SaveConfig ==
    /\ config_file.phase = "file"
    /\ \E data \in SaveRequests :
         config_file' =
            IF IsInt(data.display_time)
            THEN [config_file EXCEPT !.urls = StrippedUrls(data.urls),
                                     !.display_time = data.display_time,
                                     !.saved = TRUE,
                                     !.between_cycles = At("main", "m_loop")]
            ELSE config_file
    /\ UNCHANGED <<running, exited, browser_process, browser_launch_time,
                   browser_restart_count, connection_failures, child, pc,
                   stack, ret, sweepLeft, tmp, attempt, consecutive_failures,
                   kpc, config, consecutive_network_failures,
                   network_failover_triggered, switched, episode_failovers,
                   url_check, cmd, boot, reboots, callvars, spawnvars, obs, clock,
                   carried>>

NextSave == NextSeq \/ SaveConfig

\* the supervisor's main thread, and the URL manager saving beside it
SpecSave == InitSave /\ [][NextSave]_vars

\* C26: once the URL manager has saved a configuration with URLs while the
\* supervisor's main loop was between two cycles, every launch of the browser
\* by the supervisor in its next cycles (a relaunch, or a refresh that
\* restarts it) is given one of the saved URLs.
C26_LaunchesSavedUrl ==
    [][(/\ config_file.saved
        /\ config_file.between_cycles
        /\ config_file.urls # <<>>
        /\ browser_process' # browser_process
        /\ browser_process' # None)
       => \E i \in 1..Len(config_file.urls) :
              launched_url' = <<config_file.urls[i]>>]_vars

InitRace ==
    /\ InitCore(FALSE, Config(MaxBrowserRestarts, FALSE))
    /\ racing = [phase |-> "idle"]
    /\ Idle({"racing"})

\* the main thread and the health-check thread
NextRace == RunStep \/ HealthStep \/ Environment

SpecRace == InitRace /\ [][NextRace]_vars

\* C27: once open_url has returned success to thread t, and until t calls
\* close_browser or open_url again, a close_browser of the other thread u
\* that was in progress when the child was spawned takes no step that clears
\* the handle of that child or kills it (the child is the one of the handle:
\* any later spawn is noted anew).
C27_CloseSparesNewerChild ==
    [][\A u \in Workers : \A t \in Workers \ {u} :
          (/\ racing.phase = "raced"
           /\ racing.closer = u
           /\ pc[u] \in CbBegun
           /\ (pc'[u] # pc[u] \/ sweepLeft'[u] # sweepLeft[u])
           /\ running /\ exited = "no"
           /\ ret[t]
           /\ pc[t] \notin CbLabels \cup OuLabels
           /\ browser_process # None)
          => /\ browser_process' = browser_process
             /\ Live(browser_process)
                  => child'[browser_process] \in LiveStatus]_vars

\* C28: a thread that has tested the handle and is about to call poll() on it
\* (main loop, health-check thread, refresh_page) finds the handle still set.
C28_HandleSetAtPoll ==
    /\ pc["main"] \in {"m_poll", "m_repoll", "rp_poll"} => browser_process # None
    /\ pc["health"] = "h_poll" => browser_process # None

\* C29: outside open_url, a handle that refers to a spawned child goes with
\* the launch time of that child.
C29_LaunchTimeOfHandle ==
    (browser_process # None /\ \A t \in Workers : pc[t] \notin OuLabels)
        => browser_launch_time = browser_process

\* C30: browser_restart_count stays between 0 and max_browser_restarts.
C30_CountWithinMaximum ==
    /\ browser_restart_count >= 0
    /\ browser_restart_count <= config.max_browser_restarts

\* ---- close_browser and the handle (lines 358-373)

\* the main thread alone, with the calls of close_browser on the handle recorded
InitGrace ==
    /\ InitCore(FALSE, Config(MaxBrowserRestarts, FALSE))
    /\ grace = [phase |-> "on",
                sent |-> [t \in Workers |-> None],
                timed_out |-> [t \in Workers |-> None],
                forced |-> [t \in Workers |-> None]]
    /\ Idle({"grace"})

SpecGrace == InitGrace /\ [][NextSeq]_vars

\* C31: close_browser sends the graceful terminate first and force-kills the
\* child only if the child has not exited within the grace period: the child
\* that is sent kill() through the handle is the child that was sent
\* terminate() and whose wait(timeout=3) timed out, so a child that exits
\* within the grace period is never sent the forced kill; and the handle is
\* cleared on every path, i.e. it is None whenever close_browser is at its
\* sweep.
C31_TerminateThenKillOnTimeout ==
    \A t \in Workers :
        /\ pc[t] \in {"cb_wait", "cb_kill"} => grace.sent[t] # None
        /\ grace.forced[t] # None =>
              /\ grace.sent[t] = grace.forced[t]
              /\ grace.timed_out[t] = grace.forced[t]
        /\ pc[t] = "cb_sweep" => browser_process = None

\* a child outlived the grace period, was killed through the handle, and the
\* handle is cleared
C31_ForcedAfterTimeout ==
    /\ pc["main"] = "cb_sweep"
    /\ grace.forced["main"] # None
    /\ grace.timed_out["main"] = grace.forced["main"]
    /\ browser_process = None

\* ---- the connectivity verification of open_url (lines 770-810)

\* open_url is called and reaches its verification: url has a hostname or has
\* none, config["max_connection_retries"] is read
VerifyBegin ==
    /\ verify.phase \in {"idle", "done"}
    /\ verify.calls < MaxVerifyCalls
    /\ \E has_hostname \in BOOLEAN, max_retries \in 0..MaxConnectionRetries :
         verify' = [phase |-> IF max_retries > 0 THEN "probe" ELSE "after",
                    calls |-> verify.calls + 1,
                    has_hostname |-> has_hostname,
                    max_retries |-> max_retries,
                    attempt |-> 0,
                    url_reachable |-> FALSE,
                    dns_failed |-> FALSE,
                    probes |-> 0,
                    sleeps |-> 0,
                    dns_probe_failed |-> FALSE,
                    before |-> connection_failures]
    /\ UNCHANGED <<running, exited, browser_process, browser_launch_time,
                   browser_restart_count, connection_failures, child, pc,
                   stack, ret, sweepLeft, tmp, attempt, consecutive_failures,
                   kpc, config, consecutive_network_failures,
                   network_failover_triggered, switched, episode_failovers,
                   url_check, cmd, boot, reboots, config_file, x_wait,
                   startup, refresh, spawnvars, obs, clock, carried>>

\* if self.check_url_connectivity(url): url_reachable = True;
\* self.connection_failures = 0; break
VerifyProbe ==
    /\ verify.phase = "probe"
    /\ \E dns \in DnsOutcomes, http \in HttpOutcomes :
         LET out == CheckUrlConnectivity(verify.has_hostname, dns, http) IN
           IF out.result
           THEN /\ verify' = [verify EXCEPT !.phase = "after",
                                            !.probes = @ + 1,
                                            !.url_reachable = TRUE]
                /\ connection_failures' = 0
           ELSE /\ verify' = [verify EXCEPT
                                !.phase = "lookup",
                                !.probes = @ + 1,
                                !.dns_probe_failed =
                                    @ \/ (verify.has_hostname /\ dns = "gaierror")]
                /\ UNCHANGED connection_failures
    /\ UNCHANGED <<running, exited, browser_process, browser_launch_time,
                   browser_restart_count, child, pc, stack, ret, sweepLeft,
                   tmp, attempt, consecutive_failures, kpc, config,
                   consecutive_network_failures, network_failover_triggered,
                   switched, episode_failovers, url_check, cmd, boot, reboots,
                   config_file, x_wait, startup, refresh, spawnvars, obs, clock,
                   carried>>

\* socket.gethostbyname(hostname) once more: socket.gaierror sets dns_failed
\* and breaks; any other exception (TypeError for the hostname None) is
\* passed over; then time.sleep(retry_delay) if attempt < max_retries - 1
VerifyLookup ==
    /\ verify.phase = "lookup"
    /\ \E dns \in IF verify.has_hostname THEN DnsOutcomes ELSE {"other_error"} :
         IF dns = "gaierror"
         THEN verify' = [verify EXCEPT !.phase = "after", !.dns_failed = TRUE]
         ELSE verify' = [verify EXCEPT
                            !.phase = IF verify.attempt + 1 < verify.max_retries
                                      THEN "probe" ELSE "after",
                            !.sleeps = IF verify.attempt < verify.max_retries - 1
                                       THEN @ + 1 ELSE @,
                            !.attempt = @ + 1]
    /\ UNCHANGED <<running, exited, browser_process, browser_launch_time,
                   browser_restart_count, connection_failures, child, pc,
                   stack, ret, sweepLeft, tmp, attempt, consecutive_failures,
                   kpc, config, consecutive_network_failures,
                   network_failover_triggered, switched, episode_failovers,
                   url_check, cmd, boot, reboots, config_file, x_wait,
                   startup, refresh, spawnvars, obs, clock, carried>>

\* if dns_failed: self.connection_failures += 1
\* elif not url_reachable: self.connection_failures += 1
VerifyEnd ==
    /\ verify.phase = "after"
    /\ verify' = [verify EXCEPT !.phase = "done"]
    /\ connection_failures' =
         IF verify.dns_failed THEN connection_failures + 1
         ELSE IF ~verify.url_reachable THEN connection_failures + 1
         ELSE connection_failures
    /\ UNCHANGED <<running, exited, browser_process, browser_launch_time,
                   browser_restart_count, child, pc, stack, ret, sweepLeft,
                   tmp, attempt, consecutive_failures, kpc, config,
                   consecutive_network_failures, network_failover_triggered,
                   switched, episode_failovers, url_check, cmd, boot, reboots,
                   config_file, x_wait, startup, refresh, spawnvars, obs, clock,
                   carried>>

InitVerify ==
    /\ InitCore(FALSE, Config(MaxBrowserRestarts, FALSE))
    /\ verify = [phase |-> "idle", calls |-> 0]
    /\ Idle({"verify"})

NextVerify == VerifyBegin \/ VerifyProbe \/ VerifyLookup \/ VerifyEnd

\* calls of open_url, one after the other, as far as their verification
SpecVerify == InitVerify /\ [][NextVerify]_vars

\* the verification of the call under way has run past its loop
VerifyOver == verify.phase \in {"after", "done"}

\* C32: the connectivity verification of open_url makes at most
\* max_connection_retries probes; it stops at the first successful probe; it
\* makes no further probe once a probe has failed because of DNS resolution;
\* it waits only between attempts, not after the last; and when it is over
\* connection_failures is 0 after a success and one more than before the call
\* after a failure.
C32_BoundedVerification ==
    verify.phase \notin {"none", "idle"} =>
        /\ verify.probes <= verify.max_retries
        /\ verify.url_reachable => VerifyOver
        /\ verify.dns_probe_failed => verify.phase # "probe"
        /\ verify.sleeps <= verify.probes
        /\ VerifyOver =>
              verify.sleeps = IF verify.probes = 0 THEN 0 ELSE verify.probes - 1
        /\ verify.phase = "done" =>
              connection_failures =
                 IF verify.url_reachable THEN 0 ELSE verify.before + 1

\* ---- wait_for_x_server (lines 444-468)

\* subprocess.run(["xset", "q"], timeout=2): exit status 0, another exit
\* status, an exception (xset missing: FileNotFoundError), or TimeoutExpired
\* after the 2 s
XsetOutcomes == {"zero", "nonzero", "raises", "times_out"}

\* while waited < max_wait: the probe; return True on exit status 0; otherwise
\* time.sleep(1); waited += 1.  On a probe that raises, the mutant goes
\* straight to the next probe.
XWaitProbeSkipping ==
    /\ x_wait.phase = "waiting"
    /\ x_wait.waited < x_wait.max_wait
    /\ x_wait.failed <= MaxWait
    /\ \E outcome \in XsetOutcomes :
         x_wait' =
            IF outcome = "zero"
            THEN [x_wait EXCEPT !.phase = "done", !.result = TRUE,
                                !.last = outcome]
            ELSE IF outcome \in {"raises", "times_out"}
            THEN [x_wait EXCEPT
                    !.failed = @ + 1,
                    !.last = outcome,
                    !.elapsed = @ + (IF outcome = "times_out"
                                     THEN XsetTimeout ELSE 0)]
            ELSE [x_wait EXCEPT
                    !.waited = @ + 1,
                    !.failed = @ + 1,
                    !.last = outcome,
                    !.elapsed = @ + 1]
    /\ UNCHANGED <<running, exited, browser_process, browser_launch_time,
                   browser_restart_count, connection_failures, child, pc,
                   stack, ret, sweepLeft, tmp, attempt, consecutive_failures,
                   kpc, config, consecutive_network_failures,
                   network_failover_triggered, switched, episode_failovers,
                   url_check, cmd, boot, reboots, config_file, verify,
                   startup, refresh, spawnvars, obs, clock, carried>>

\* while waited < max_wait: the probe; return True on exit status 0; otherwise
\* (`except Exception: pass` included) time.sleep(1); waited += 1
XWaitProbe ==
    /\ x_wait.phase = "waiting"
    /\ x_wait.waited < x_wait.max_wait
    /\ \E outcome \in XsetOutcomes :
         x_wait' =
            IF outcome = "zero"
            THEN [x_wait EXCEPT !.phase = "done", !.result = TRUE,
                                !.last = outcome]
            ELSE [x_wait EXCEPT
                    !.waited = @ + 1,
                    !.failed = @ + 1,
                    !.last = outcome,
                    !.elapsed = @ + 1 + (IF outcome = "times_out"
                                         THEN XsetTimeout ELSE 0)]
    /\ UNCHANGED <<running, exited, browser_process, browser_launch_time,
                   browser_restart_count, connection_failures, child, pc,
                   stack, ret, sweepLeft, tmp, attempt, consecutive_failures,
                   kpc, config, consecutive_network_failures,
                   network_failover_triggered, switched, episode_failovers,
                   url_check, cmd, boot, reboots, config_file, verify,
                   startup, refresh, spawnvars, obs, clock, carried>>

\* the loop condition fails: return False
XWaitGiveUp ==
    /\ x_wait.phase = "waiting"
    /\ ~(x_wait.waited < x_wait.max_wait)
    /\ x_wait' = [x_wait EXCEPT !.phase = "done", !.result = FALSE]
    /\ UNCHANGED <<running, exited, browser_process, browser_launch_time,
                   browser_restart_count, connection_failures, child, pc,
                   stack, ret, sweepLeft, tmp, attempt, consecutive_failures,
                   kpc, config, consecutive_network_failures,
                   network_failover_triggered, switched, episode_failovers,
                   url_check, cmd, boot, reboots, config_file, verify,
                   startup, refresh, spawnvars, obs, clock, carried>>

\* wait_for_x_server(max_wait) is called: waited = 0
InitXWait ==
    /\ InitCore(FALSE, Config(MaxBrowserRestarts, FALSE))
    /\ \E max_wait \in 0..MaxWait :
         x_wait = [phase |-> "waiting", max_wait |-> max_wait, waited |-> 0,
                   failed |-> 0, last |-> "none", elapsed |-> 0,
                   result |-> FALSE]
    /\ Idle({"x_wait"})

NextXWait == XWaitProbe \/ XWaitGiveUp

\* a call of wait_for_x_server by a thread that keeps running
SpecXWait == InitXWait /\ [][NextXWait]_vars /\ WF_vars(NextXWait)

\* C33: wait_for_x_server always terminates; it returns True at the first
\* display probe that succeeds and returns False after exactly max_wait
\* failed probes, a probe that raises or times out counting as failed; no
\* probe blocks beyond its timeout, so the call is over within
\* max_wait * (1 + 2) seconds.
C33_WaitTerminates ==
    /\ [](/\ x_wait.failed = x_wait.waited
          /\ x_wait.waited <= x_wait.max_wait
          /\ x_wait.elapsed <= x_wait.max_wait * (1 + XsetTimeout)
          /\ x_wait.phase = "done" =>
                IF x_wait.result
                THEN x_wait.last = "zero"
                ELSE /\ x_wait.failed = x_wait.max_wait
                     /\ x_wait.last # "zero")
    /\ <>(x_wait.phase = "done")

\* max_wait probes failed, the last by its timeout, and the call returned False
C33_GaveUp ==
    /\ x_wait.phase = "done"
    /\ ~x_wait.result
    /\ x_wait.max_wait > 1
    /\ x_wait.failed = x_wait.max_wait
    /\ x_wait.last = "times_out"

\* ---- the start-up of run (lines 954-980)

\* the main thread alone, with its launch attempts and waits recorded
InitStartup ==
    /\ InitCore(FALSE, Config(MaxBrowserRestarts, FALSE))
    /\ startup = [phase |-> "on", launches |-> 0, retry |-> 0, slept |-> 0,
                  recheck_failed |-> 0, waited |-> 0, in_loop |-> FALSE,
                  opened |-> FALSE]
    /\ Idle({"startup"})

SpecStartup == InitStartup /\ [][NextSeq]_vars

\* at most 10 launch attempts, none after the first success, no wait after the
\* last attempt, and the main loop entered with or without a browser
StartupAttemptsBounded ==
    /\ startup.launches <= StartupAttempts
    /\ startup.retry <= StartupAttempts - 1
    /\ startup.retry <= startup.launches
    /\ startup.opened => startup.in_loop
    /\ startup.in_loop <=> pc["main"] \notin {"m_start", "m_started"}
                            /\ ~InOpenUrlAtStartup
    /\ startup.in_loop => startup.retry = startup.launches - 1
    /\ (startup.in_loop /\ ~startup.opened) =>
          startup.launches = StartupAttempts

\* C34 (as claimed): at start-up run makes at most 10 launch attempts and
\* stops at the first success; before retry number k (k = 1..9) it waits
\* min(5 + (k-1), 15) seconds; it does not wait after the last attempt and
\* enters the main loop whether or not a launch succeeded.
C34_WaitsBackoffOnly ==
    /\ StartupAttemptsBounded
    /\ startup.retry >= 1 => startup.waited = Min(5 + (startup.retry - 1), 15)

\* C34 (amended): as claimed, but before retry number k run sleeps
\* min(5 + (k-1), 15) seconds and then re-checks the display surface with up to
\* ten probes one second apart, sleeping 10 more seconds when all ten fail:
\* the wait is at least min(5 + (k-1), 15) seconds, and exactly that when the
\* first probe of the re-check succeeds.
C34_BackoffThenRecheck ==
    /\ StartupAttemptsBounded
    /\ startup.retry >= 1 =>
          /\ startup.slept = Min(5 + (startup.retry - 1), 15)
          /\ startup.waited =
                startup.slept + startup.recheck_failed
                + (IF startup.recheck_failed = RecheckProbes THEN 10 ELSE 0)
          /\ startup.recheck_failed = 0 => startup.waited = startup.slept

\* all ten attempts failed, the last retry came after the capped wait and a
\* failed re-check, and run is in its main loop without a browser
C34_EnteredLoopAfterTenFailures ==
    /\ startup.in_loop
    /\ ~startup.opened
    /\ startup.launches = StartupAttempts
    /\ startup.retry = StartupAttempts - 1
    /\ startup.recheck_failed = RecheckProbes
    /\ pc["main"] = "m_loop"

\* ---- refresh_page and the auto-refresh of run (lines 388-419, 1020-1028)

\* the main thread alone, with its calls of refresh_page recorded
InitRefresh ==
    /\ InitCore(FALSE, Config(MaxBrowserRestarts, FALSE))
    /\ refresh = [phase |-> "on", handle |-> "unread", due |-> FALSE,
                  reachable |-> TRUE, key |-> "no", restart |-> FALSE,
                  result |-> "unset"]
    /\ Idle({"refresh"})

SpecRefresh == InitRefresh /\ [][NextSeq]_vars

\* C35: refresh_page decides by the state of the child: with no handle or an
\* exited child it restarts the browser and sends no refresh key; with a live
\* child, a connectivity check due and the URL unreachable it restarts the
\* browser and sends no refresh key; otherwise it sends the refresh key and
\* restarts only if sending the key raises.
C35_RefreshByChildState ==
    refresh.handle # "unread" =>
        IF refresh.handle \in {"none", "exited"}
        THEN refresh.restart /\ refresh.key = "no"
        ELSE IF refresh.due /\ ~refresh.reachable
        THEN refresh.restart /\ refresh.key = "no"
        ELSE /\ refresh.key \in {"sent", "raised"}
             /\ refresh.restart <=> refresh.key = "raised"

\* refresh_page found a live child and an unreachable URL, sent no key, and run
\* is inside the restart it made
C35_RestartedUnreachable ==
    /\ refresh.handle = "live"
    /\ refresh.due
    /\ ~refresh.reachable
    /\ refresh.restart
    /\ refresh.key = "no"
    /\ pc["main"] = "ou_spawn"
    /\ stack["main"] = <<"rb_result", "m_loop">>

\* refresh_page returns to run
RefreshReturns ==
    /\ pc["main"] # "m_loop"
    /\ stack["main"] = <<"m_loop">>
    /\ pc'["main"] = "m_loop"

\* if self.refresh_page(): last_refresh = time.time()
\* else: last_refresh = time.time() - (refresh_interval / 2)
LastRefresh(result) == IF result = "True" THEN "now" ELSE "half_interval_ago"

\* C36: refresh_page returns True on every path, so in the main loop
\* last_refresh is reset to the current time after every auto-refresh attempt
\* and the 'Refresh failed, will retry on next cycle' branch is never taken.
C36_RefreshReturnsTrue ==
    [][RefreshReturns =>
         /\ refresh'.result = "True"
         /\ LastRefresh(refresh'.result) = "now"]_vars

\* refresh_page could not send the key, its restart failed, and run is back in
\* its loop
C36_BackInLoopAfterFailedRefresh ==
    /\ pc["main"] = "m_loop"
    /\ stack["main"] = <<>>
    /\ refresh.key = "raised"
    /\ refresh.restart
    /\ browser_restart_count > 0

\* ---- the requests of the URL manager (src/url_manager.py, lines 17-77)

\* load_config's answer for a file that is missing or cannot be parsed
ManagerDefaults ==
    [urls |-> <<>>, display_time |-> "30", browser |-> <<"chromium-browser">>]

\* ~/.piview/config.json when a request arrives: missing; not JSON; JSON but
\* not an object; the file the supervisor writes at its first start; a file
\* the URL manager has saved before
StoredFiles ==
    {[kind |-> "absent"], [kind |-> "malformed"], [kind |-> "not_object"],
     [kind |-> "object",
      data |-> [url |-> <<"http://example.com">>,
                browser |-> <<"chromium">>,
                refresh_interval |-> "60"]],
     [kind |-> "object",
      data |-> [urls |-> <<"http://signage.local">>,
                display_time |-> "30",
                browser |-> <<"chromium-browser">>]]}

\* the keys stored in the file
StoredKeys(file) == IF file.kind = "object" THEN DOMAIN file.data ELSE {}

GetPaths == {"/", "/index.html", "/api/config", "/api/save", "/favicon.ico"}
PostPaths == {"/api/save", "/api/config", "/"}

\* config['urls'] = ...; config['display_time'] = ... on the loaded dict
WithSaved(cfg, data) ==
    [k \in DOMAIN cfg \cup {"urls", "display_time"} |->
        IF k = "urls" THEN StrippedUrls(data.urls)
        ELSE IF k = "display_time" THEN data.display_time
        ELSE cfg[k]]

\* do_GET: the page, the configuration as load_config reads it, or 404
DoGet ==
    /\ config_file.phase = "store"
    /\ \E path \in GetPaths :
         config_file' =
            [config_file EXCEPT
               !.before = config_file.content,
               !.request = [method |-> "GET", path |-> path,
                            data |-> [urls |-> <<>>, display_time |-> "30"]],
               !.response =
                  IF path \in {"/", "/index.html"}
                  THEN [status |-> 200, body |-> [kind |-> "html"]]
                  ELSE IF path = "/api/config"
                  THEN [status |-> 200,
                        body |-> IF config_file.content.kind = "object"
                                 THEN [kind |-> "json",
                                       data |-> config_file.content.data]
                                 ELSE IF config_file.content.kind = "not_object"
                                 THEN [kind |-> "json_not_object"]
                                 ELSE [kind |-> "json",
                                       data |-> ManagerDefaults]]
                  ELSE [status |-> 404, body |-> [kind |-> "none"]]]
    /\ UNCHANGED <<running, exited, browser_process, browser_launch_time,
                   browser_restart_count, connection_failures, child, pc,
                   stack, ret, sweepLeft, tmp, attempt, consecutive_failures,
                   kpc, config, consecutive_network_failures,
                   network_failover_triggered, switched, episode_failovers,
                   url_check, cmd, boot, reboots, callvars, spawnvars, obs,
                   clock, carried>>

\* do_POST: for /api/save the loaded configuration (ManagerDefaults for a
\* missing or unparsable file) with `urls` and `display_time` set is written
\* to the file and {'status': 'success'} answered; a TypeError on a
\* configuration that is not an object, or a ValueError of int(), ends the
\* handler before save_config with no answer; any other path: 404
DoPost ==
    /\ config_file.phase = "store"
    /\ \E path \in PostPaths, data \in SaveRequests :
         LET file == config_file.content
             raises == file.kind = "not_object" \/ ~IsInt(data.display_time)
             loaded == IF file.kind = "object" THEN file.data
                       ELSE ManagerDefaults
         IN config_file' =
              [config_file EXCEPT
                 !.before = file,
                 !.request = [method |-> "POST", path |-> path, data |-> data],
                 !.content =
                    IF path = "/api/save" /\ ~raises
                    THEN [kind |-> "object", data |-> WithSaved(loaded, data)]
                    ELSE file,
                 !.saved = @ \/ (path = "/api/save" /\ ~raises),
                 !.response =
                    IF path # "/api/save"
                    THEN [status |-> 404, body |-> [kind |-> "none"]]
                    ELSE IF raises
                    THEN [status |-> 0, body |-> [kind |-> "none"]]
                    ELSE [status |-> 200, body |-> [kind |-> "success"]]]
    /\ UNCHANGED <<running, exited, browser_process, browser_launch_time,
                   browser_restart_count, connection_failures, child, pc,
                   stack, ret, sweepLeft, tmp, attempt, consecutive_failures,
                   kpc, config, consecutive_network_failures,
                   network_failover_triggered, switched, episode_failovers,
                   url_check, cmd, boot, reboots, callvars, spawnvars, obs,
                   clock, carried>>

InitManager ==
    /\ InitCore(FALSE, Config(MaxBrowserRestarts, FALSE))
    /\ \E file \in StoredFiles :
         config_file = [phase |-> "store", content |-> file, before |-> file,
                        saved |-> FALSE,
                        request |-> [method |-> "none", path |-> "",
                                     data |-> [urls |-> <<>>,
                                               display_time |-> "30"]],
                        response |-> [status |-> 0, body |-> [kind |-> "none"]]]
    /\ Idle({"config_file"})

NextManager == DoGet \/ DoPost

\* the URL manager serving its requests one after the other
SpecManager == InitManager /\ [][NextManager]_vars

\* C37: POST /api/save changes only the keys urls and display_time of the
\* stored configuration and leaves every other stored key unchanged; the
\* stored urls are the submitted entries stripped, blanks removed, in order; a
\* following GET /api/config returns exactly the stored configuration; any
\* other GET or POST path is answered 404 and leaves the stored configuration
\* unchanged.
C37_SaveTouchesTwoKeys ==
    LET request == config_file.request
        before == config_file.before
        after == config_file.content
        response == config_file.response
    IN /\ (request.method = "POST" /\ request.path = "/api/save"
            /\ response.status = 200) =>
              /\ after.kind = "object"
              /\ StoredKeys(after) \subseteq
                    StoredKeys(before) \cup {"urls", "display_time"}
              /\ \A k \in StoredKeys(before) \ {"urls", "display_time"} :
                    k \in StoredKeys(after) /\ after.data[k] = before.data[k]
              /\ after.data.urls = StrippedUrls(request.data.urls)
       /\ (request.method = "GET" /\ request.path = "/api/config"
            /\ config_file.saved) =>
              /\ response.status = 200
              /\ response.body = [kind |-> "json", data |-> after.data]
       /\ (IF request.method = "GET"
           THEN request.path \notin {"/", "/index.html", "/api/config"}
           ELSE request.method = "POST" /\ request.path # "/api/save") =>
              response.status = 404 /\ after = before
       /\ request.method = "GET" => after = before
====
